---- MODULE Spec2Model ----
(***************************************************************************)
(* A model of the road attribution pipeline of RCL-Tools:                  *)
(*   - PrepRoadsVA_tt    (ProcRoads.py)  Virginia road centerlines          *)
(*   - PrepRoadsTIGER_tt (ProcRoads.py)  TIGER/Line roads                   *)
(*   - prepOSM / attributeOSM (ProcOSM.py)  OpenStreetMap roads             *)
(*   - RemoveDupRoads    (ProcRoads.py)  duplicate segment removal         *)
(* A feature class is a sequence of records in OBJECTID order.  A line     *)
(* geometry is the set of unit pieces (cells) it covers; a polygon layer   *)
(* is the set of cells it covers.  Every geoprocessing call of a function  *)
(* is one step of that function's state machine.                           *)
(***************************************************************************)
EXTENDS Integers, Sequences, FiniteSets, TLC

(***************************************************************************)
(* Bounds of the model.                                                    *)
(***************************************************************************)
MaxVA == 1          \* records of inRCL
MaxTG == 1          \* records of the merged TIGER shapefiles
MaxOSM == 1         \* records of a roads table handed to attributeOSM
MaxAppend == 1      \* feature classes of other states in appendFC
NCells == 2         \* unit pieces of the line the roads lie on
MaxDup == 2         \* records of the inRoads handed to RemoveDupRoads
MaxRoads == 3       \* records of the roads handed to RampPts, and of lah
MaxLocal == 2       \* records of local
MaxNet == 2         \* records of the inRoads handed to a network builder
MaxCost == 2        \* records of the inRoads handed to CostSurfTravTime
MaxFiles == 2       \* rows of in_tab, and files of ZipDir
MaxDens == 2        \* records of the inRoads handed to FilterRoads_dens
MaxRamps == 3       \* ramps of the ramp loop of MakeRampPoints.py
MaxSu == 1          \* records of the inRCL handed to AssignBuffer_su

(***************************************************************************)
(* Values.  A nullable number is <<>> (null / None) or <<n>>; a nullable   *)
(* text is NullStr or the text.  A DOUBLE is an exact fraction <<n, d>>.   *)
(***************************************************************************)
None == <<>>
Some(x) == <<x>>
IsNone(v) == v = <<>>
Val(v) == v[1]
NullStr == "<Null>"

Frac(n, d) == <<n, d>>
FracEq(a, b) == a[1] * b[2] = b[1] * a[2]
FracPos(a) == (a[1] > 0 /\ a[2] > 0) \/ (a[1] < 0 /\ a[2] < 0)

Range(s) == {s[i] : i \in DOMAIN s}
SeqsUpTo(S, n) == UNION {[1..k -> S] : k \in 1..n}
\* the tables of 1..n rows whose first row is of First and whose other rows are of Rest
Tables(First, Rest, n) ==
  {t \in SeqsUpTo(First \cup Rest, n) : \A i \in 2..Len(t) : t[i] \in Rest}

(***************************************************************************)
(* PrepRoadsVA_tt: the field calculator code blocks.                       *)
(***************************************************************************)
\* Flg with the test turned around: only "Y" counts as existing
Flg_onlyY(exists, speed) ==
  IF exists # "Y" THEN -1
  ELSE IF IsNone(speed) \/ Val(speed) = 0 \/ Val(speed) % 5 # 0 THEN 1
  ELSE 0

Flg(exists, speed) ==
  IF exists = "N" THEN -1
  ELSE IF IsNone(speed) \/ Val(speed) = 0 \/ Val(speed) % 5 # 0 THEN 1
  ELSE 0

\* the speeds of SpdUpd by MTFCC class, used when the record is flagged 1
SpdUpdByClass(mtfcc) ==
  IF mtfcc \in {"S1100", "S1100HOV"} THEN 55
  ELSE IF mtfcc \in {"S1200", "S1200LOC", "S1200PRI", "S1300", "S1640"} THEN 45
  ELSE IF mtfcc = "S1630" THEN 30
  ELSE IF mtfcc \in {"C3061", "C3062", "S1400", "S1740"} THEN 25
  ELSE IF mtfcc \in {"S1500", "S1730", "S1780"} THEN 15
  ELSE IF mtfcc = "S1820" THEN 10
  ELSE 3

\* SpdUpd without its "elif flgfld == -1" branch
SpdUpd_noWalk(flgfld, mtfcc, speed) ==
  IF flgfld = 1 THEN Some(SpdUpdByClass(mtfcc)) ELSE speed

SpdUpd(flgfld, mtfcc, speed) ==
  IF flgfld = 1 THEN Some(SpdUpdByClass(mtfcc))
  ELSE IF flgfld = -1 THEN Some(3)
  ELSE speed

\* "0.037/ !SPEED_upd!": minutes needed to travel 1 meter (no value where the
\* division has none)
TravTime(speed_upd) ==
  IF IsNone(speed_upd) \/ Val(speed_upd) = 0 THEN None
  ELSE Frac(37, 1000 * Val(speed_upd))

RmpHwy(mtfcc) ==
  IF mtfcc \in {"S1100", "S1100HOV"} THEN 2
  ELSE IF mtfcc = "S1630" THEN 1
  ELSE 0

\* 'VA_' + str(int(!RCL_ID!))
UniqueID_VA(rcl_id) == <<"VA_", rcl_id>>

\* the where clause of the driving-only subset; a null never satisfies NOT IN
VASubsetWhere(r) ==
  /\ r.MTFCC # NullStr
  /\ r.MTFCC \notin {"S1730", "S1780", "S9999", "S1710", "S1720", "S1740",
                     "S1820", "S1830", "S1500"}
  /\ r.SEGMENT_TYPE \notin {50}

(***************************************************************************)
(* The records PrepRoadsVA_tt is given.                                    *)
(***************************************************************************)
VA_MTFCC == {"S1100", "S1100HOV", "S1200", "S1200LOC", "S1200PRI", "S1300",
             "S1640", "S1630", "C3061", "C3062", "S1400", "S1740", "S1500",
             "S1730", "S1780", "S1820", "S1710", "S9999", NullStr}
VA_SPEED == {None, Some(0), Some(7), Some(55)}
VA_EXISTS == {"Y", "N", NullStr}
VA_SEGTYPE == {10}

VARawRecord == [SEGMENT_EXISTS : VA_EXISTS, LOCAL_SPEED_MPH : VA_SPEED,
                MTFCC : VA_MTFCC, SEGMENT_TYPE : VA_SEGTYPE]
\* the calculators work a row at a time: the first row of a table takes every
\* value, the rows after it are local streets
VAOtherRecord == [SEGMENT_EXISTS : {"Y"}, LOCAL_SPEED_MPH : {Some(0)},
                  MTFCC : {"S1400"}, SEGMENT_TYPE : VA_SEGTYPE]

\* a record of inRCL; the fields the function adds are null until calculated
VARecord(raw, id) ==
  [RCL_ID |-> id, SEGMENT_EXISTS |-> raw.SEGMENT_EXISTS,
   LOCAL_SPEED_MPH |-> raw.LOCAL_SPEED_MPH, MTFCC |-> raw.MTFCC,
   SEGMENT_TYPE |-> raw.SEGMENT_TYPE,
   FlgFld |-> None, SPEED_upd |-> None, TravTime |-> None, RmpHwy |-> None,
   UniqueID |-> None]


(***************************************************************************)
(* Geometry.  Roads lie on a line of NCells unit pieces; a line feature    *)
(* covers an interval of them, a polygon layer covers the pieces 1..k.     *)
(* A polygon argument that is not given (None) is NoArea.                  *)
(***************************************************************************)
Cells == 1..NCells
Lines == {a..b : a \in Cells, b \in Cells} \ {{}}
Areas == {1..k : k \in Cells}
NoArea == {}

MinCell(g) == CHOOSE c \in g : \A d \in g : c <= d
MaxCell(g) == CHOOSE c \in g : \A d \in g : c >= d

\* Clip_analysis / PairwiseClip_analysis: the part of each feature inside area
Clip(tbl, area) ==
  LET kept == SelectSeq(tbl, LAMBDA r : r.geom \cap area # {})
  IN  [i \in DOMAIN kept |-> [kept[i] EXCEPT !.geom = @ \cap area]]

\* Erase_analysis: the part of each feature outside area
Erase(tbl, area) ==
  LET kept == SelectSeq(tbl, LAMBDA r : r.geom \ area # {})
  IN  [i \in DOMAIN kept |-> [kept[i] EXCEPT !.geom = @ \ area]]

\* CalculateField_management and UpdateCursor loops: f applied to every row
Calc(tbl, f(_)) == [i \in DOMAIN tbl |-> f(tbl[i])]

(***************************************************************************)
(* PrepRoadsTIGER_tt: the field calculator code blocks.                    *)
(***************************************************************************)
Speed(mtfcc, rttyp) ==
  IF mtfcc = "S1100" THEN (IF rttyp = "I" THEN 70 ELSE 65)
  ELSE IF mtfcc \in {"S1200", "S1640"} THEN
       (IF rttyp \in {"I", "S", "U"} THEN 55 ELSE 45)
  ELSE IF mtfcc = "S1630" THEN 30
  ELSE IF mtfcc \in {"C3061", "C3062", "S1400", "S1740"} THEN 25
  ELSE IF mtfcc \in {"S1500", "S1730", "S1780"} THEN 15
  ELSE IF mtfcc = "S1820" THEN 10
  ELSE 3

\* the urban adjustment with ">= 30" for "> 30"
Speed_urb_ge(Speed_upd) == IF Speed_upd >= 30 THEN Speed_upd - 10 ELSE Speed_upd

\* the second code block named Speed: the urban adjustment of Speed_upd
Speed_urb(Speed_upd) == IF Speed_upd > 30 THEN Speed_upd - 10 ELSE Speed_upd

RmpHwy_TIGER(mtfcc) ==
  IF mtfcc \in {"S1100", "S1100HOV"} THEN 2
  ELSE IF mtfcc = "S1630" THEN 1
  ELSE 0

\* 'TL_' + !LINEARID!
UniqueID_TIGER(linearid) == <<"TL_", linearid>>

TGSubsetWhere(r) ==
  /\ r.MTFCC # NullStr
  /\ r.MTFCC \notin {"S1710", "S1720", "S1730", "S1750", "S9999", "S1820", "S1830"}

\* the urban block returning the adjusted urban part alone
UrbAdjust_onlyUrb(outRoads, urbAreas) ==
  Calc(Clip(outRoads, urbAreas), LAMBDA r :
          [r EXCEPT !.Speed_upd = Some(Speed_urb(Val(r.Speed_upd)))])

\* the urban block: Erase, Clip, CalculateField on onlyUrb, Merge
UrbAdjust(outRoads, urbAreas) ==
  LET noUrb == Erase(outRoads, urbAreas)
      onlyUrb == Clip(outRoads, urbAreas)
      adj == Calc(onlyUrb, LAMBDA r :
                [r EXCEPT !.Speed_upd = Some(Speed_urb(Val(r.Speed_upd)))])
  IN  noUrb \o adj

TG_MTFCC == {"S1100", "S1200", "S1630", "S1400", "S1500", "S1820", "S9999"}
TG_RTTYP == {"I", "U", "M"}

TGRawRecord == [MTFCC : TG_MTFCC, RTTYP : TG_RTTYP, geom : Lines]
TGOtherRecord == [MTFCC : {"S1400"}, RTTYP : {"M"}, geom : Lines]

TGRecord(raw, id) ==
  [LINEARID |-> id, MTFCC |-> raw.MTFCC, RTTYP |-> raw.RTTYP, geom |-> raw.geom,
   Speed_upd |-> None, TravTime |-> None, RmpHwy |-> None, UniqueID |-> None]

(***************************************************************************)
(* ProcOSM.py: rmpHwy, mph, tt.                                            *)
(***************************************************************************)
rmpHwy(code) == IF code = 5111 THEN 2 ELSE IF code = 5131 THEN 1 ELSE 0

\* the codes on which mph trusts maxspeed ("a driving road")
OSM_DRIVING == {5111, 5112, 5113, 5114, 5115, 5121, 5122, 5123, 5131, 5132,
                5133, 5134, 5135, 5141, 5142, 5143, 5144, 5145, 5146, 5147}

\* "maxspeed >= 40 and code in (...)"; evaluated only for a maxspeed that is not None
mphUsesMaxspeed(maxspeed, code) == Val(maxspeed) >= 40 /\ code \in OSM_DRIVING

\* int(0.5 + maxspeed * 0.621371), km/h to mph
mphFromMaxspeed(maxspeed) == (500000 + Val(maxspeed) * 621371) \div 1000000

\* the if/elif chain on code
mphByCode(code) ==
  IF code = 5111 THEN 70
  ELSE IF code = 5112 THEN 65
  ELSE IF code = 5113 THEN 55
  ELSE IF code = 5114 THEN 45
  ELSE IF code = 5115 THEN 35
  ELSE IF code \in {5121, 5122} THEN 25
  ELSE IF code = 5123 THEN 15
  ELSE IF code \in {5124, 5153, 5154, 5155, 5199} THEN 3
  ELSE IF code \in {5131, 5132, 5133, 5134, 5135} THEN 30
  ELSE IF code \in {5141, 5142} THEN 15
  ELSE IF code = 5143 THEN 25
  ELSE IF code = 5144 THEN 20
  ELSE IF code = 5145 THEN 15
  ELSE IF code = 5146 THEN 10
  ELSE IF code = 5147 THEN 5
  ELSE IF code \in {5151, 5152} THEN 10
  ELSE -1

\* "if int(ua) == 1: if s > 30: s = s - 10", inside the else branch of mph
mphUrban(s, ua) == IF Val(ua) = 1 /\ s > 30 THEN s - 10 ELSE s

\* None >= 40 and int(None) raise TypeError
mphRaises(maxspeed, code, ua) ==
  \/ IsNone(maxspeed)
  \/ (~mphUsesMaxspeed(maxspeed, code) /\ IsNone(ua))

mph(maxspeed, code, ua) ==
  IF mphUsesMaxspeed(maxspeed, code) THEN mphFromMaxspeed(maxspeed)
  ELSE mphUrban(mphByCode(code), ua)

\* t = 0.03728 * length_m / speed_mph (0.03728 = 233/6250)
tt(length_m, speed_mph) == Frac(233 * length_m, 6250 * speed_mph)

\* Shape_Length, in meters: a unit piece is one meter long
Shape_Length(geom) == Cardinality(geom)

\* HAVE_THEIR_CENTER_IN: the middle of the line is in the area
CenterIn(geom, area) == ((MinCell(geom) + MaxCell(geom)) \div 2) \in area

\* arcpy.env.extent = boundary: a tool reads the features that reach into it
InExtent(tbl, boundary) == SelectSeq(tbl, LAMBDA r : r.geom \cap boundary # {})

\* DeleteIdentical_management on osm_id: the first record of each osm_id stays
DeleteIdentical_osm_id(tbl) ==
  LET first(i) == \A j \in 1..(i - 1) : tbl[j].osm_id # tbl[i].osm_id
      F[i \in 0..Len(tbl)] ==
        IF i = 0 THEN <<>>
        ELSE IF first(i) THEN Append(F[i - 1], tbl[i]) ELSE F[i - 1]
  IN  F[Len(tbl)]

OSM_CODE == {5111, 5112, 5113, 5114, 5115, 5121, 5123, 5124, 5131, 5141, 5143,
             5144, 5145, 5146, 5147, 5151, 5199, 5100}
OSM_MAXSPEED == {None, Some(0), Some(40), Some(100)}

OSMRecord(id, code, maxspeed, geom, ua) ==
  [osm_id |-> id, code |-> code, maxspeed |-> maxspeed, geom |-> geom, UA |-> ua,
   RmpHwy |-> None, SPEED_MPH |-> None, TT_MIN |-> None]

\* the roads of a state extract handed to prepOSM: two kinds of road
OSMStateRoads == {OSMRecord(0, 5113, Some(0), g, None) : g \in Lines}
                   \cup {OSMRecord(0, 5131, Some(100), g, None) : g \in Lines}

\* the travel time with the constant of ProcOSM's tt
TravTime_TIGER_osm(speed_upd) ==
  IF IsNone(speed_upd) \/ Val(speed_upd) = 0 THEN None
  ELSE Frac(233, 6250 * Val(speed_upd))

\* "0.037/ !SPEED_upd!" of PrepRoadsTIGER_tt
TravTime_TIGER(speed_upd) ==
  IF IsNone(speed_upd) \/ Val(speed_upd) = 0 THEN None
  ELSE Frac(37, 1000 * Val(speed_upd))

VARIABLES
  vaStep,      \* PrepRoadsVA_tt: the call completed last
  vaIn,        \* inRCL as it was handed to the function
  vaRCL,       \* inRCL, updated in place
  vaSubset,    \* the outSubset feature class (<<>> unless written)
  tgStep,      \* PrepRoadsTIGER_tt: the call completed last
  tgRun,       \* 1 in the first run, 2 in a run over the output of the first
  tgIn,        \* the records of the shapefiles of inDir, in merge order
  tgBnd,       \* the inBnd argument (NoArea: not given)
  tgUrb,       \* the urbAreas argument (NoArea: not given)
  tgRoads,     \* outRoads
  tgFirst,     \* outRoads as the first run returned it (<<>> during the first run)
  tgSubset,    \* the outSubset feature class (<<>> unless written)
  osStep,      \* prepOSM / attributeOSM: the call completed last
  osRun,       \* 1 in the first run of attributeOSM, 2 in a second run on its output
  osInFC,      \* prepOSM's inFC
  osAppendFC,  \* prepOSM's appendFC: a list of feature classes
  osI,         \* position of the loop over appendFC
  osBoundary,  \* prepOSM's boundary
  osRoads,     \* outRoads / inRoads
  osFirst      \* the table as the first run of attributeOSM returned it

VARIABLES
  ddStep,      \* RemoveDupRoads: the call completed last
  ddSortFld,   \* the sort_fld argument
  ddIn,        \* inRoads
  ddOver0,     \* the feature class over0
  ddRoad1,     \* the feature class road1
  ddOut        \* outRoads

vaVars == <<vaStep, vaIn, vaRCL, vaSubset>>
tgVars == <<tgStep, tgRun, tgIn, tgBnd, tgUrb, tgRoads, tgFirst, tgSubset>>
osVars == <<osStep, osRun, osInFC, osAppendFC, osI, osBoundary, osRoads, osFirst>>
VARIABLES
  rpStep,      \* RampPts: the call completed last
  rpRoads,     \* roads
  rpR1,        \* tmp_r1, the end points of the ramps
  rpDiss,      \* hwy_end_diss, the dissolved highways
  rpHe1,       \* he1, the end points of the dissolved highways
  rpTmp,       \* tmp_hwy_endpts / tmp_ints, as written last
  rpPts        \* rampPts

VARIABLES
  mrStep,      \* MakeRampPoints.py: the block completed last
  mrLah,       \* lah, the limited access highways and their ramps
  mrLocal,     \* local, the layer without limited access highways
  mrCur,       \* the rows of rmp selected in base / cur
  mrA,         \* a
  mrB,         \* b
  mrRmpt2,     \* rmpt2
  mrHwyEndpts, \* hwy_endpts
  mrFix2,      \* rmpt2_nonVAfix2
  mrFinal      \* rmpt_final_all

VARIABLES
  ntStep,      \* MakeNetworkDataset_tt: the call completed last
  ntIn,        \* inRoads
  ntNodup,     \* rd_nodup
  ntPts,       \* rmp_pts
  ntFd,        \* the feature classes of the feature dataset RCL
  onStep,      \* makeNetworkDataset: the call completed last
  onIn,        \* inRoads
  onFd         \* the feature classes of the feature dataset RoadsNet

VARIABLES
  csStep,      \* position in CostSurfTravTime
  csRoads,     \* inRoads of CostSurfTravTime
  csLahOnly,   \* the lahOnly argument
  csTmp,       \* tmpRast, a value or NoData per cell
  csOut        \* outCostSurf

VARIABLES
  dlStep,      \* position in BatchDownloadZips
  dlExtract,   \* the extract argument
  FileList,    \* the file names read of in_tab
  ProcList,    \* the processing results
  dlLog,       \* the lines of README.txt
  dlI,         \* position of the download loop in FileList
  dlTrace,     \* the calls made so far, in order
  dlFailed,    \* positions of FileList whose download raised
  dlDir        \* the zip files of out_dir

VARIABLES
  exStep,      \* position in BatchExtractZipFiles
  exDir,       \* the files of ZipDir
  zfiles,      \* the zip files listed
  exI,         \* position of the loop in zfiles
  exLog,       \* the lines of ZipLog.txt
  exTried,     \* the files handed to ZipFile, in order
  exFailed     \* positions of zfiles whose extraction raised

VARIABLES
  saStep,      \* position in RecServiceAreas
  inFacilities,\* the group IDs of the facilities
  id_List,     \* the unique group IDs, sorted
  saMyIndex,   \* myIndex, the position of the loop in id_List
  saMyFailList,\* myFailList
  saTried,     \* the group IDs worked on, in order
  saFailed,    \* positions of id_List whose processing raised
  saOut,       \* the group IDs whose service areas are in outGDB
  saMsgs       \* the failure messages and the final summary

VARIABLES
  rrStep,      \* position in RecRastFromPolys.py
  inGDB,       \* the polygon feature classes of inGDB
  inPolys,     \* the list of them
  rrMyIndex,   \* myIndex, the position of the loop in inPolys
  rrMyFailList,\* myFailList
  rrTried,     \* the polygons worked on, in order
  rrFailed,    \* positions of inPolys whose processing raised
  sumRast,     \* the polygons added to the running sum
  rrMsgs       \* the failure messages and the final summary

VARIABLES
  fdStep,      \* position in FilterRoads_dens
  fdIn,        \* inRoads of FilterRoads_dens
  selType,     \* the selType argument
  tmpRoads,    \* the rows selected by selQry
  fdOut        \* outRoads of FilterRoads_dens

VARIABLES
  rlStep,      \* position in the ramp loop of MakeRampPoints.py
  rlOnHwy,     \* the ramps that intersect a highway
  rlTouch,     \* the pairs of ramps whose boundaries touch
  rlCur,       \* cur, the ramps selected
  rlA,         \* a
  rlB          \* b

VARIABLES
  suStep,      \* position in PrepRoadsVA_su, the review and AssignBuffer_su
  suRCL        \* the road centerlines with the fields for road surfaces

rpVars == <<rpStep, rpRoads, rpR1, rpDiss, rpHe1, rpTmp, rpPts>>
mrVars == <<mrStep, mrLah, mrLocal, mrCur, mrA, mrB, mrRmpt2, mrHwyEndpts, mrFix2, mrFinal>>
ntVars == <<ntStep, ntIn, ntNodup, ntPts, ntFd>>
onVars == <<onStep, onIn, onFd>>
ddVars == <<ddStep, ddSortFld, ddIn, ddOver0, ddRoad1, ddOut>>
csVars == <<csStep, csRoads, csLahOnly, csTmp, csOut>>
dlVars == <<dlStep, dlExtract, FileList, ProcList, dlLog, dlI, dlTrace, dlFailed, dlDir>>
exVars == <<exStep, exDir, zfiles, exI, exLog, exTried, exFailed>>
saVars == <<saStep, inFacilities, id_List, saMyIndex, saMyFailList, saTried, saFailed, saOut, saMsgs>>
rrVars == <<rrStep, inGDB, inPolys, rrMyIndex, rrMyFailList, rrTried, rrFailed, sumRast, rrMsgs>>
fdVars == <<fdStep, fdIn, selType, tmpRoads, fdOut>>
rlVars == <<rlStep, rlOnHwy, rlTouch, rlCur, rlA, rlB>>
suVars == <<suStep, suRCL>>
vars == <<vaVars, tgVars, osVars, ddVars, rpVars, mrVars, ntVars, onVars, csVars, dlVars, exVars, saVars, rrVars, fdVars, rlVars, suVars>>

\* what a function leaves alone: the data of the other functions
vaOthers == <<tgVars, osVars, ddVars, rpVars, mrVars, ntVars, onVars, csVars, dlVars, exVars, saVars, rrVars, fdVars, rlVars, suVars>>
tgOthers == <<vaVars, osVars, ddVars, rpVars, mrVars, ntVars, onVars, csVars, dlVars, exVars, saVars, rrVars, fdVars, rlVars, suVars>>
osOthers == <<vaVars, tgVars, ddVars, rpVars, mrVars, ntVars, onVars, csVars, dlVars, exVars, saVars, rrVars, fdVars, rlVars, suVars>>
ddOthers == <<vaVars, tgVars, osVars, rpVars, mrVars, ntVars, onVars, csVars, dlVars, exVars, saVars, rrVars, fdVars, rlVars, suVars>>
rpOthers == <<vaVars, tgVars, osVars, ddVars, mrVars, ntVars, onVars, csVars, dlVars, exVars, saVars, rrVars, fdVars, rlVars, suVars>>
mrOthers == <<vaVars, tgVars, osVars, ddVars, rpVars, ntVars, onVars, csVars, dlVars, exVars, saVars, rrVars, fdVars, rlVars, suVars>>
ntOthers == <<vaVars, tgVars, osVars, ddVars, rpVars, mrVars, onVars, csVars, dlVars, exVars, saVars, rrVars, fdVars, rlVars, suVars>>
onOthers == <<vaVars, tgVars, osVars, ddVars, rpVars, mrVars, ntVars, csVars, dlVars, exVars, saVars, rrVars, fdVars, rlVars, suVars>>
csOthers == <<vaVars, tgVars, osVars, ddVars, rpVars, mrVars, ntVars, onVars, dlVars, exVars, saVars, rrVars, fdVars, rlVars, suVars>>
dlOthers == <<vaVars, tgVars, osVars, ddVars, rpVars, mrVars, ntVars, onVars, csVars, saVars, rrVars, fdVars, rlVars, suVars>>
exOthers == <<vaVars, tgVars, osVars, ddVars, rpVars, mrVars, ntVars, onVars, csVars, saVars, rrVars, fdVars, rlVars, suVars>>
saOthers == <<vaVars, tgVars, osVars, ddVars, rpVars, mrVars, ntVars, onVars, csVars, dlVars, exVars, rrVars, fdVars, rlVars, suVars>>
rrOthers == <<vaVars, tgVars, osVars, ddVars, rpVars, mrVars, ntVars, onVars, csVars, dlVars, exVars, saVars, fdVars, rlVars, suVars>>
fdOthers == <<vaVars, tgVars, osVars, ddVars, rpVars, mrVars, ntVars, onVars, csVars, dlVars, exVars, saVars, rrVars, rlVars, suVars>>
rlOthers == <<vaVars, tgVars, osVars, ddVars, rpVars, mrVars, ntVars, onVars, csVars, dlVars, exVars, saVars, rrVars, fdVars, suVars>>
suOthers == <<vaVars, tgVars, osVars, ddVars, rpVars, mrVars, ntVars, onVars, csVars, dlVars, exVars, saVars, rrVars, fdVars, rlVars>>

(***************************************************************************)
(* PrepRoadsVA_tt                                                          *)
(***************************************************************************)
VAIdle ==
  /\ vaStep = "idle" /\ vaIn = <<>> /\ vaRCL = <<>> /\ vaSubset = <<>>

VAInit ==
  /\ vaStep = "start"
  /\ \E raws \in Tables(VARawRecord, VAOtherRecord, MaxVA) :
        vaIn = [i \in DOMAIN raws |-> VARecord(raws[i], i)]
  /\ vaRCL = vaIn
  /\ vaSubset = <<>>

VA_FlgFld ==
  /\ vaStep = "start"
  /\ vaRCL' = Calc(vaRCL, LAMBDA r :
        [r EXCEPT !.FlgFld = Some(Flg(r.SEGMENT_EXISTS, r.LOCAL_SPEED_MPH))])
  /\ vaStep' = "FlgFld"
  /\ UNCHANGED <<vaIn, vaSubset>>
  /\ UNCHANGED vaOthers

VA_SPEED_upd ==
  /\ vaStep = "FlgFld"
  /\ vaRCL' = Calc(vaRCL, LAMBDA r :
        [r EXCEPT !.SPEED_upd = SpdUpd(Val(r.FlgFld), r.MTFCC, r.LOCAL_SPEED_MPH)])
  /\ vaStep' = "SPEED_upd"
  /\ UNCHANGED <<vaIn, vaSubset>>
  /\ UNCHANGED vaOthers

VA_TravTime ==
  /\ vaStep = "SPEED_upd"
  /\ vaRCL' = Calc(vaRCL, LAMBDA r : [r EXCEPT !.TravTime = TravTime(r.SPEED_upd)])
  /\ vaStep' = "TravTime"
  /\ UNCHANGED <<vaIn, vaSubset>>
  /\ UNCHANGED vaOthers

VA_RmpHwy ==
  /\ vaStep = "TravTime"
  /\ vaRCL' = Calc(vaRCL, LAMBDA r : [r EXCEPT !.RmpHwy = Some(RmpHwy(r.MTFCC))])
  /\ vaStep' = "RmpHwy"
  /\ UNCHANGED <<vaIn, vaSubset>>
  /\ UNCHANGED vaOthers

VA_UniqueID ==
  /\ vaStep = "RmpHwy"
  /\ vaRCL' = Calc(vaRCL, LAMBDA r : [r EXCEPT !.UniqueID = UniqueID_VA(r.RCL_ID)])
  /\ vaStep' = "UniqueID"
  /\ UNCHANGED <<vaIn, vaSubset>>
  /\ UNCHANGED vaOthers

\* VA_Subset where the selection is made in inRCL itself
VA_Subset_inPlace ==
  /\ vaStep = "UniqueID"
  /\ vaRCL' = SelectSeq(vaRCL, VASubsetWhere)
  /\ vaSubset' = vaRCL'
  /\ vaStep' = "done"
  /\ UNCHANGED vaIn
  /\ UNCHANGED vaOthers

\* "if outSubset:" Select_analysis writes the subset, then the function returns
VA_Subset ==
  /\ vaStep = "UniqueID"
  /\ vaSubset' = SelectSeq(vaRCL, VASubsetWhere)
  /\ vaStep' = "done"
  /\ UNCHANGED <<vaIn, vaRCL>>
  /\ UNCHANGED vaOthers

\* outSubset not given
VA_Return ==
  /\ vaStep = "UniqueID"
  /\ vaStep' = "done"
  /\ UNCHANGED <<vaIn, vaRCL, vaSubset>>
  /\ UNCHANGED vaOthers

VANext ==
  \/ VA_FlgFld \/ VA_SPEED_upd \/ VA_TravTime \/ VA_RmpHwy \/ VA_UniqueID
  \/ VA_Subset \/ VA_Return

(***************************************************************************)
(* PrepRoadsTIGER_tt                                                       *)
(***************************************************************************)
TGIdle ==
  /\ tgStep = "idle" /\ tgRun = 1 /\ tgIn = <<>> /\ tgBnd = NoArea /\ tgUrb = NoArea
  /\ tgRoads = <<>> /\ tgFirst = <<>> /\ tgSubset = <<>>

TGInit ==
  /\ tgStep = "start" /\ tgRun = 1
  /\ \E raws \in Tables(TGRawRecord, TGOtherRecord, MaxTG) :
        tgIn = [i \in DOMAIN raws |-> TGRecord(raws[i], i)]
  /\ tgBnd = NoArea /\ tgUrb = NoArea
  /\ tgRoads = <<>> /\ tgFirst = <<>> /\ tgSubset = <<>>

\* Merge_management, and Clip_analysis "if inBnd:"
TG_Merge ==
  /\ tgStep = "start"
  /\ \E bnd \in (IF tgRun = 1 THEN Areas \cup {NoArea} ELSE {tgBnd}) :
        /\ tgBnd' = bnd
        /\ tgRoads' = IF bnd # NoArea THEN Clip(tgIn, bnd) ELSE tgIn
  /\ tgStep' = "merged"
  /\ UNCHANGED <<tgRun, tgIn, tgUrb, tgFirst, tgSubset>>
  /\ UNCHANGED tgOthers

\* Speed_upd calculated only where it is still null
TG_Speed_upd_keep ==
  /\ tgStep = "merged"
  /\ tgRoads' = Calc(tgRoads, LAMBDA r :
        IF IsNone(r.Speed_upd)
        THEN [r EXCEPT !.Speed_upd = Some(Speed(r.MTFCC, r.RTTYP))] ELSE r)
  /\ tgStep' = "Speed_upd"
  /\ UNCHANGED <<tgRun, tgIn, tgBnd, tgUrb, tgFirst, tgSubset>>
  /\ UNCHANGED tgOthers

TG_Speed_upd ==
  /\ tgStep = "merged"
  /\ tgRoads' = Calc(tgRoads, LAMBDA r :
        [r EXCEPT !.Speed_upd = Some(Speed(r.MTFCC, r.RTTYP))])
  /\ tgStep' = "Speed_upd"
  /\ UNCHANGED <<tgRun, tgIn, tgBnd, tgUrb, tgFirst, tgSubset>>
  /\ UNCHANGED tgOthers

\* "if urbAreas:" the urban block; outRoads becomes outRoads + '_urbAdjust'
TG_UrbAdjust ==
  /\ tgStep = "Speed_upd"
  /\ \E urb \in (IF tgRun = 1 THEN Areas \cup {NoArea} ELSE {tgUrb}) :
        /\ tgUrb' = urb
        /\ tgRoads' = IF urb # NoArea THEN UrbAdjust(tgRoads, urb) ELSE tgRoads
  /\ tgStep' = "urbAdjust"
  /\ UNCHANGED <<tgRun, tgIn, tgBnd, tgFirst, tgSubset>>
  /\ UNCHANGED tgOthers

TG_TravTime ==
  /\ tgStep = "urbAdjust"
  /\ tgRoads' = Calc(tgRoads, LAMBDA r :
        [r EXCEPT !.TravTime = TravTime_TIGER(r.Speed_upd)])
  /\ tgStep' = "TravTime"
  /\ UNCHANGED <<tgRun, tgIn, tgBnd, tgUrb, tgFirst, tgSubset>>
  /\ UNCHANGED tgOthers

TG_RmpHwy ==
  /\ tgStep = "TravTime"
  /\ tgRoads' = Calc(tgRoads, LAMBDA r : [r EXCEPT !.RmpHwy = Some(RmpHwy_TIGER(r.MTFCC))])
  /\ tgStep' = "RmpHwy"
  /\ UNCHANGED <<tgRun, tgIn, tgBnd, tgUrb, tgFirst, tgSubset>>
  /\ UNCHANGED tgOthers

TG_UniqueID ==
  /\ tgStep = "RmpHwy"
  /\ tgRoads' = Calc(tgRoads, LAMBDA r : [r EXCEPT !.UniqueID = UniqueID_TIGER(r.LINEARID)])
  /\ tgStep' = "UniqueID"
  /\ UNCHANGED <<tgRun, tgIn, tgBnd, tgUrb, tgFirst, tgSubset>>
  /\ UNCHANGED tgOthers

TG_Subset ==
  /\ tgStep = "UniqueID"
  /\ tgSubset' = SelectSeq(tgRoads, TGSubsetWhere)
  /\ tgStep' = "done"
  /\ UNCHANGED <<tgRun, tgIn, tgBnd, tgUrb, tgRoads, tgFirst>>
  /\ UNCHANGED tgOthers

TG_Return ==
  /\ tgStep = "UniqueID"
  /\ tgStep' = "done"
  /\ UNCHANGED <<tgRun, tgIn, tgBnd, tgUrb, tgRoads, tgFirst, tgSubset>>
  /\ UNCHANGED tgOthers

\* the function is run again, with the same arguments, on the dataset it returned
TG_Rerun ==
  /\ tgStep = "done" /\ tgRun = 1
  /\ tgRun' = 2
  /\ tgIn' = tgRoads
  /\ tgFirst' = tgRoads
  /\ tgRoads' = <<>>
  /\ tgSubset' = <<>>
  /\ tgStep' = "start"
  /\ UNCHANGED <<tgBnd, tgUrb>>
  /\ UNCHANGED tgOthers

TGNext ==
  \/ TG_Merge \/ TG_Speed_upd \/ TG_UrbAdjust \/ TG_TravTime \/ TG_RmpHwy
  \/ TG_UniqueID \/ TG_Subset \/ TG_Return \/ TG_Rerun

(***************************************************************************)
(* prepOSM, then attributeOSM                                              *)
(***************************************************************************)
OSIdle ==
  /\ osStep = "idle" /\ osRun = 1 /\ osInFC = <<>> /\ osAppendFC = <<>> /\ osI = 1
  /\ osBoundary = NoArea /\ osRoads = <<>> /\ osFirst = <<>>

\* the road of another state: the inFC road again (a border road, in both
\* extracts) or a road of its own
OtherStateFCs(inRec) ==
  {<<inRec>>} \cup {<<[r EXCEPT !.osm_id = 2]>> : r \in OSMStateRoads}

\* main(): prepOSM on the extracts, then attributeOSM on its result
OSInitPrep ==
  /\ osStep = "start" /\ osRun = 1
  /\ \E r \in OSMStateRoads :
        /\ osInFC = <<[r EXCEPT !.osm_id = 1]>>
        /\ osAppendFC \in {<<>>} \cup SeqsUpTo(OtherStateFCs(osInFC[1]), MaxAppend)
  /\ osI = 1
  /\ osBoundary \in Areas
  /\ osRoads = <<>> /\ osFirst = <<>>

\* attributeOSM on a roads table that has its UA attribute
OSInitAttr ==
  /\ osStep = "prepOSM" /\ osRun = 1
  /\ osInFC = <<>> /\ osAppendFC = <<>> /\ osI = 1 /\ osBoundary = NoArea
  /\ \E t \in Tables([code : OSM_CODE, maxspeed : OSM_MAXSPEED, geom : {{1}, Cells},
                      ua : {Some(0), Some(1)}],
                     [code : {5122}, maxspeed : {Some(0)}, geom : {{1}, Cells},
                      ua : {Some(0), Some(1)}], MaxOSM) :
        osRoads = [i \in DOMAIN t |->
                     OSMRecord(i, t[i].code, t[i].maxspeed, t[i].geom, t[i].ua)]
  /\ osFirst = <<>>

OSInit == OSInitPrep \/ OSInitAttr

\* FeatureClassToFeatureClass_conversion of inFC, under env.extent = boundary
OS_Copy ==
  /\ osStep = "start"
  /\ osRoads' = InExtent(osInFC, osBoundary)
  /\ osI' = 1
  /\ osStep' = "copied"
  /\ UNCHANGED <<osRun, osInFC, osAppendFC, osBoundary, osFirst>>
  /\ UNCHANGED osOthers

\* one pass of "for i in appendFC": PairwiseClip to rd2, Append rd2
OS_Append ==
  /\ osStep = "copied"
  /\ osI <= Len(osAppendFC)
  /\ osRoads' = osRoads \o Clip(osAppendFC[osI], osBoundary)
  /\ osI' = osI + 1
  /\ UNCHANGED <<osStep, osRun, osInFC, osAppendFC, osBoundary, osFirst>>
  /\ UNCHANGED osOthers

OS_DeleteIdentical ==
  /\ osStep = "copied"
  /\ osI > Len(osAppendFC)
  /\ osRoads' = DeleteIdentical_osm_id(osRoads)
  /\ osStep' = "DeleteIdentical"
  /\ UNCHANGED <<osRun, osInFC, osAppendFC, osI, osBoundary, osFirst>>
  /\ UNCHANGED osOthers

\* UA = 1 on the selection HAVE_THEIR_CENTER_IN urbanAreas, 0 on the others;
\* prepOSM returns
OS_UA ==
  /\ osStep = "DeleteIdentical"
  /\ \E urbanAreas \in Areas :
        osRoads' = Calc(osRoads, LAMBDA r :
           [r EXCEPT !.UA = IF CenterIn(r.geom, urbanAreas) THEN Some(1) ELSE Some(0)])
  /\ osStep' = "prepOSM"
  /\ UNCHANGED <<osRun, osInFC, osAppendFC, osI, osBoundary, osFirst>>
  /\ UNCHANGED osOthers

OS_RmpHwy ==
  /\ osStep = "prepOSM"
  /\ osRoads' = Calc(osRoads, LAMBDA r : [r EXCEPT !.RmpHwy = Some(rmpHwy(r.code))])
  /\ osStep' = "RmpHwy"
  /\ UNCHANGED <<osRun, osInFC, osAppendFC, osI, osBoundary, osFirst>>
  /\ UNCHANGED osOthers

\* the cursor loop calling mph; a TypeError leaves the rows before it updated
OS_SPEED_MPH ==
  /\ osStep = "RmpHwy"
  /\ LET bad == {i \in DOMAIN osRoads :
                   mphRaises(osRoads[i].maxspeed, osRoads[i].code, osRoads[i].UA)}
         upto == IF bad = {} THEN Len(osRoads) ELSE MinCell(bad) - 1
     IN  /\ osRoads' = [i \in DOMAIN osRoads |->
               IF i <= upto
               THEN [osRoads[i] EXCEPT !.SPEED_MPH =
                       Some(mph(osRoads[i].maxspeed, osRoads[i].code, osRoads[i].UA))]
               ELSE osRoads[i]]
         /\ osStep' = IF bad = {} THEN "SPEED_MPH" ELSE "TypeError"
  /\ UNCHANGED <<osRun, osInFC, osAppendFC, osI, osBoundary, osFirst>>
  /\ UNCHANGED osOthers

\* the cursor loop calling tt; attributeOSM returns
OS_TT_MIN ==
  /\ osStep = "SPEED_MPH"
  /\ osRoads' = Calc(osRoads, LAMBDA r :
        [r EXCEPT !.TT_MIN = tt(Shape_Length(r.geom), Val(r.SPEED_MPH))])
  /\ osStep' = "done"
  /\ UNCHANGED <<osRun, osInFC, osAppendFC, osI, osBoundary, osFirst>>
  /\ UNCHANGED osOthers

\* attributeOSM is run again on the table it returned
OS_Rerun ==
  /\ osStep = "done" /\ osRun = 1
  /\ osRun' = 2
  /\ osFirst' = osRoads
  /\ osStep' = "prepOSM"
  /\ UNCHANGED <<osInFC, osAppendFC, osI, osBoundary, osRoads>>
  /\ UNCHANGED osOthers

OSNext ==
  \/ OS_Copy \/ OS_Append \/ OS_DeleteIdentical \/ OS_UA \/ OS_RmpHwy
  \/ OS_SPEED_MPH \/ OS_TT_MIN \/ OS_Rerun

(***************************************************************************)
(* The three normalizations; a behaviour runs one of them.                 *)
(***************************************************************************)
(***************************************************************************)
(* RemoveDupRoads                                                          *)
(***************************************************************************)
\* the input roads that run over cell c
Cover(roads, c) == {j \in DOMAIN roads : c \in roads[j].geom}

\* the stretch around cell c that the same roads run over
Stretch(roads, c) ==
  {d \in Cells : \A e \in Cells :
      ((c <= e /\ e <= d) \/ (d <= e /\ e <= c)) => Cover(roads, e) = Cover(roads, c)}

\* CountOverlappingFeatures_analysis: one feature for every stretch that the
\* same input roads run over, with their number in COUNT_
CountOverlappingFeatures(roads) ==
  LET covered == {c \in Cells : Cover(roads, c) # {}}
      starts == {c \in covered : MinCell(Stretch(roads, c)) = c}
      F[c \in 0..NCells] ==
        IF c = 0 THEN <<>>
        ELSE IF c \in starts
             THEN Append(F[c - 1], [geom |-> Stretch(roads, c),
                                    COUNT_ |-> Cardinality(Cover(roads, c))])
             ELSE F[c - 1]
  IN  F[NCells]

\* SpatialJoin_analysis(target, join, JOIN_ONE_TO_MANY, match_option WITHIN):
\* a row for every target feature and every join feature it lies within; the
\* row has the target's shape and TARGET_FID and the join feature's attributes
SpatialJoin(target, join) ==
  LET row(i, j) == [TARGET_FID |-> i, JOIN_FID |-> j, COUNT_ |-> target[i].COUNT_,
                    geom |-> target[i].geom, LINEARID |-> join[j].LINEARID,
                    Speed_upd |-> join[j].Speed_upd]
      J[i \in DOMAIN target, j \in 0..Len(join)] ==
        IF j = 0 THEN <<>>
        ELSE IF target[i].geom \subseteq join[j].geom
             THEN Append(J[i, j - 1], row(i, j)) ELSE J[i, j - 1]
      T[i \in 0..Len(target)] ==
        IF i = 0 THEN <<>> ELSE T[i - 1] \o J[i, Len(join)]
  IN  T[Len(target)]

\* a comes before b under sort_fld, a list of <<field, direction>>
RECURSIVE Before(_, _, _)
Before(a, b, sort_fld) ==
  IF sort_fld = <<>> THEN FALSE
  ELSE LET fld == Head(sort_fld)[1]
           x == IF fld = "Speed_upd" THEN a.Speed_upd ELSE a.LINEARID
           y == IF fld = "Speed_upd" THEN b.Speed_upd ELSE b.LINEARID
       IN  IF x = y THEN Before(a, b, Tail(sort_fld))
           ELSE IF Head(sort_fld)[2] = "ASCENDING" THEN x < y ELSE x > y

\* Sort_management: the rows in the order of sort_fld; rows that compare equal
\* on every field of sort_fld come out in any order
RECURSIVE SortOrders(_, _, _)
SortOrders(tbl, left, sort_fld) ==
  IF left = {} THEN {<<>>}
  ELSE LET firsts == {i \in left : \A k \in left : ~Before(tbl[k], tbl[i], sort_fld)}
       IN  UNION {{<<tbl[i]>> \o t : t \in SortOrders(tbl, left \ {i}, sort_fld)}
                     : i \in firsts}

Sort(tbl, sort_fld) == SortOrders(tbl, DOMAIN tbl, sort_fld)

\* DeleteIdentical that deletes nothing
DeleteIdentical_none(tbl) == tbl

\* DeleteIdentical that keeps the last record of each TARGET_FID
DeleteIdentical_last(tbl) ==
  LET last(i) == \A j \in (i + 1)..Len(tbl) : tbl[j].TARGET_FID # tbl[i].TARGET_FID
      F[i \in 0..Len(tbl)] ==
        IF i = 0 THEN <<>>
        ELSE IF last(i) THEN Append(F[i - 1], tbl[i]) ELSE F[i - 1]
  IN  F[Len(tbl)]

\* DeleteIdentical_management on TARGET_FID: the first record of each
\* TARGET_FID stays
DeleteIdentical_TARGET_FID(tbl) ==
  LET first(i) == \A j \in 1..(i - 1) : tbl[j].TARGET_FID # tbl[i].TARGET_FID
      F[i \in 0..Len(tbl)] ==
        IF i = 0 THEN <<>>
        ELSE IF first(i) THEN Append(F[i - 1], tbl[i]) ELSE F[i - 1]
  IN  F[Len(tbl)]

DUP_SPEED == {45, 55}
DUP_SORT_FLD == {<< <<"Speed_upd", "DESCENDING">> >>,
                 << <<"Speed_upd", "ASCENDING">> >>,
                 << <<"Speed_upd", "DESCENDING">>, <<"LINEARID", "ASCENDING">> >>}

DDIdle ==
  /\ ddStep = "idle" /\ ddSortFld = <<>> /\ ddIn = <<>>
  /\ ddOver0 = <<>> /\ ddRoad1 = <<>> /\ ddOut = <<>>

\* inRoads: up to MaxDup segments, their ids going up or down in record order
DDInit ==
  /\ ddStep = "start"
  /\ ddSortFld \in DUP_SORT_FLD
  /\ \E n \in 0..MaxDup :
        \E ids \in {[i \in 1..n |-> i], [i \in 1..n |-> n + 1 - i]} :
           \E spd \in [1..n -> DUP_SPEED], g \in [1..n -> Lines] :
              ddIn = [i \in 1..n |-> [LINEARID |-> ids[i], Speed_upd |-> spd[i],
                                      geom |-> g[i]]]
  /\ ddOver0 = <<>> /\ ddRoad1 = <<>> /\ ddOut = <<>>

DD_CountOverlappingFeatures ==
  /\ ddStep = "start"
  /\ ddOver0' = CountOverlappingFeatures(ddIn)
  /\ ddStep' = "over0"
  /\ UNCHANGED <<ddSortFld, ddIn, ddRoad1, ddOut>>
  /\ UNCHANGED ddOthers

\* CountOverlappingFeatures_analysis raises arcpy.ExecuteError (the tool is
\* ArcGIS Pro only, or the overlay fails): nothing in RemoveDupRoads catches
\* it, the call ends there and outRoads is never written
DD_ExecuteError ==
  /\ ddStep = "start"
  /\ ddStep' = "ExecuteError"
  /\ UNCHANGED <<ddSortFld, ddIn, ddOver0, ddRoad1, ddOut>>
  /\ UNCHANGED ddOthers

DD_SpatialJoin ==
  /\ ddStep = "over0"
  /\ ddRoad1' = SpatialJoin(ddOver0, ddIn)
  /\ ddStep' = "road1"
  /\ UNCHANGED <<ddSortFld, ddIn, ddOver0, ddOut>>
  /\ UNCHANGED ddOthers

DD_Sort ==
  /\ ddStep = "road1"
  /\ ddOut' \in Sort(ddRoad1, ddSortFld)
  /\ ddStep' = "sorted"
  /\ UNCHANGED <<ddSortFld, ddIn, ddOver0, ddRoad1>>
  /\ UNCHANGED ddOthers

DD_DeleteIdentical ==
  /\ ddStep = "sorted"
  /\ ddOut' = DeleteIdentical_TARGET_FID(ddOut)
  /\ ddStep' = "DeleteIdentical"
  /\ UNCHANGED <<ddSortFld, ddIn, ddOver0, ddRoad1>>
  /\ UNCHANGED ddOthers

\* garbagePickup(['road1', 'over0']); return outRoads
DD_Return ==
  /\ ddStep = "DeleteIdentical"
  /\ ddOver0' = <<>> /\ ddRoad1' = <<>>
  /\ ddStep' = "done"
  /\ UNCHANGED <<ddSortFld, ddIn, ddOut>>
  /\ UNCHANGED ddOthers

(***************************************************************************)
(* RampPts.  A point is the end of a unit piece: the points are 0..NCells, *)
(* and the line over the pieces a..b runs from point a - 1 to point b.     *)
(***************************************************************************)
Points == 0..NCells
StartPt(g) == MinCell(g) - 1
EndPt(g) == MaxCell(g)
EndPts(g) == {StartPt(g), EndPt(g)}

\* a point INTERSECTs a line: it lies on it, the ends included
PtOnLine(p, g) == StartPt(g) <= p /\ p <= EndPt(g)
PtOnAny(p, lines) == \E i \in DOMAIN lines : PtOnLine(p, lines[i].geom)

\* line g BOUNDARY_TOUCHES the line over the pieces h with the ends hEnds: an
\* end of g is an end of the line, and the two lines share nothing else
BoundaryTouches(g, h, hEnds) == EndPts(g) \cap hEnds # {} /\ g \cap h = {}

\* the default where clauses of RampPts
IsHighway(r) == r.MTFCC = "S1100"
IsRamp(r) == r.MTFCC = "S1630"
IsLocal(r) == r.MTFCC \notin {"S1100", "S1630"}

\* MakeFeatureLayer_management(roads, where_clause)
Layer(roads, where(_)) == SelectSeq(roads, where)

\* FeatureVerticesToPoints with "START" in the place of "BOTH_ENDS"
FeatureVerticesToPoints_START(lines) ==
  [i \in DOMAIN lines |-> [pt |-> StartPt(lines[i].geom), ORIG_FID |-> i]]

\* FeatureVerticesToPoints_management(lines, "BOTH_ENDS"): the start and the
\* end point of every line, with the line's attributes
FeatureVerticesToPoints(lines) ==
  LET F[i \in 0..Len(lines)] ==
        IF i = 0 THEN <<>>
        ELSE F[i - 1] \o << [pt |-> StartPt(lines[i].geom), ORIG_FID |-> i],
                            [pt |-> EndPt(lines[i].geom), ORIG_FID |-> i] >>
  IN  F[Len(lines)]

\* the points of pts that INTERSECT a line of lines
SelectByLocation(pts, lines) == SelectSeq(pts, LAMBDA q : PtOnAny(q.pt, lines))

\* CalculateField_management(fc, "junction", j)
WithJunction(pts, j) == [i \in DOMAIN pts |-> [pt |-> pts[i].pt, junction |-> j]]

\* Dissolve_management(lyr_hwy, ..., "SINGLE_PART", "UNSPLIT_LINES"): two lines
\* become one where they, and no third line, end in the same vertex.
\* Joint(hwy, v): exactly two highway lines end in v
Joint(hwy, v) == Cardinality({i \in DOMAIN hwy : v \in EndPts(hwy[i].geom)}) = 2

RECURSIVE Chain(_, _)
Chain(hwy, done) ==
  LET more == {j \in DOMAIN hwy \ done : \E i \in done :
                  \E v \in EndPts(hwy[i].geom) \cap EndPts(hwy[j].geom) : Joint(hwy, v)}
  IN  IF more = {} THEN done ELSE Chain(hwy, done \cup more)

\* the lines of the dissolved layer, each with the pieces it runs over, its
\* vertices and its two ends; a line that closes to a ring has no end
Dissolve(hwy) ==
  LET ends(c) == {v \in UNION {EndPts(hwy[i].geom) : i \in c} : ~Joint(hwy, v)}
      first(c) == CHOOSE i \in c : \A j \in c : i <= j
      F[i \in 0..Len(hwy)] ==
        IF i = 0 THEN <<>>
        ELSE IF first(Chain(hwy, {i})) = i
             THEN Append(F[i - 1],
                         [geom |-> UNION {hwy[j].geom : j \in Chain(hwy, {i})},
                          verts |-> UNION {EndPts(hwy[j].geom) : j \in Chain(hwy, {i})},
                          ends |-> ends(Chain(hwy, {i}))])
             ELSE F[i - 1]
  IN  F[Len(hwy)]

\* FeatureVerticesToPoints with "ALL" in the place of "BOTH_ENDS"
He1_ALL(diss, start) ==
  LET RECURSIVE Pts(_, _)
      Pts(k, vs) == IF vs = {} THEN <<>>
                    ELSE LET v == CHOOSE w \in vs : \A x \in vs : w <= x
                         IN  <<[pt |-> v, ORIG_FID |-> k]>> \o Pts(k, vs \ {v})
      F[k \in 0..Len(diss)] ==
        IF k = 0 THEN <<>> ELSE F[k - 1] \o Pts(k, diss[k].verts)
  IN  F[Len(diss)]

\* FeatureVerticesToPoints_management("hwy_end_diss", "he1", "BOTH_ENDS"): the
\* two ends of every dissolved line; the start and the end of a ring are one
\* vertex of it, start[k], which may be any
He1(diss, start) ==
  LET lo(k) == IF diss[k].ends = {} THEN start[k]
               ELSE CHOOSE v \in diss[k].ends : \A w \in diss[k].ends : v <= w
      hi(k) == IF diss[k].ends = {} THEN start[k]
               ELSE CHOOSE v \in diss[k].ends : \A w \in diss[k].ends : v >= w
      F[k \in 0..Len(diss)] ==
        IF k = 0 THEN <<>>
        ELSE F[k - 1] \o << [pt |-> lo(k), ORIG_FID |-> k], [pt |-> hi(k), ORIG_FID |-> k] >>
  IN  F[Len(diss)]

\* DeleteIdentical that keeps the last point of each location
DeleteIdentical_Shape_last(pts) ==
  LET last(i) == \A j \in (i + 1)..Len(pts) : pts[j].pt # pts[i].pt
      F[i \in 0..Len(pts)] ==
        IF i = 0 THEN <<>>
        ELSE IF last(i) THEN Append(F[i - 1], pts[i]) ELSE F[i - 1]
  IN  F[Len(pts)]

\* DeleteIdentical_management(rampPts, ["Shape"]): the first point of each
\* location stays
DeleteIdentical_Shape(pts) ==
  LET first(i) == \A j \in 1..(i - 1) : pts[j].pt # pts[i].pt
      F[i \in 0..Len(pts)] ==
        IF i = 0 THEN <<>>
        ELSE IF first(i) THEN Append(F[i - 1], pts[i]) ELSE F[i - 1]
  IN  F[Len(pts)]

\* the local roads that INTERSECT a dissolved highway
LocalsAtHwyEnd_intersect(roads, diss) ==
  SelectSeq(Layer(roads, IsLocal),
            LAMBDA r : \E k \in DOMAIN diss :
                          /\ StartPt(r.geom) <= EndPt(diss[k].geom)
                          /\ StartPt(diss[k].geom) <= EndPt(r.geom))

\* the local roads selected in line 317, and the highway ends selected in
\* lines 319 and 321
LocalsAtHwyEnd(roads, diss) ==
  SelectSeq(Layer(roads, IsLocal),
            LAMBDA r : \E k \in DOMAIN diss :
                          BoundaryTouches(r.geom, diss[k].geom, diss[k].ends))

HwyEndsAtLocal(roads, diss, he1) ==
  SelectSeq(SelectByLocation(he1, LocalsAtHwyEnd(roads, diss)),
            LAMBDA q : ~PtOnAny(q.pt, Layer(roads, IsRamp)))

RP_MTFCC == <<"S1100", "S1630", "S1400", "S1100HOV">>

\* the roads tables: up to n roads that differ in class or in line, in one
\* order (a selection by location does not look at the order of the records)
RoadCode(c, g) == ((c - 1) * (NCells + 1) + MinCell(g)) * (NCells + 1) + MaxCell(g)

RECURSIVE RoadTables(_, _)
RoadTables(n, from) ==
  {<<>>} \cup
  (IF n = 0 THEN {}
   ELSE UNION {{<<[MTFCC |-> RP_MTFCC[c], geom |-> g]>> \o t
                   : t \in RoadTables(n - 1, RoadCode(c, g) + 1)}
                 : <<c, g>> \in {x \in (DOMAIN RP_MTFCC) \X Lines
                                   : RoadCode(x[1], x[2]) >= from}})

RoadRecord(raw, id) ==
  [LINEARID |-> id, MTFCC |-> raw.MTFCC, geom |-> raw.geom,
   RmpHwy |-> RmpHwy_TIGER(raw.MTFCC)]

RPIdle ==
  /\ rpStep = "idle" /\ rpRoads = <<>> /\ rpR1 = <<>> /\ rpDiss = <<>>
  /\ rpHe1 = <<>> /\ rpTmp = <<>> /\ rpPts = <<>>

RPInit ==
  /\ rpStep = "start"
  /\ \E t \in RoadTables(MaxRoads, 0) :
        rpRoads = [i \in DOMAIN t |-> RoadRecord(t[i], i)]
  /\ rpR1 = <<>> /\ rpDiss = <<>> /\ rpHe1 = <<>> /\ rpTmp = <<>> /\ rpPts = <<>>

\* lines 283-285: the end points of the ramps
RP_RampEnds ==
  /\ rpStep = "start"
  /\ rpR1' = FeatureVerticesToPoints(Layer(rpRoads, IsRamp))
  /\ rpStep' = "tmp_r1"
  /\ UNCHANGED <<rpRoads, rpDiss, rpHe1, rpTmp, rpPts>>
  /\ UNCHANGED rpOthers

\* lines 289-292: the ramp ends on a highway, junction = 1
RP_RampHwy ==
  /\ rpStep = "tmp_r1"
  /\ rpPts' = WithJunction(SelectByLocation(rpR1, Layer(rpRoads, IsHighway)), 1)
  /\ rpStep' = "rampHwy"
  /\ UNCHANGED <<rpRoads, rpR1, rpDiss, rpHe1, rpTmp>>
  /\ UNCHANGED rpOthers

\* lines 295-297: the dissolved highways and their ends
RP_Dissolve ==
  /\ rpStep = "rampHwy"
  /\ rpDiss' = Dissolve(Layer(rpRoads, IsHighway))
  /\ \E start \in [DOMAIN rpDiss' -> Points] :
        /\ \A k \in DOMAIN rpDiss' :
              start[k] = IF rpDiss'[k].ends = {} THEN start[k] ELSE 0
        /\ \A k \in DOMAIN rpDiss' : rpDiss'[k].ends = {} => start[k] \in rpDiss'[k].verts
        /\ rpHe1' = He1(rpDiss', start)
  /\ rpStep' = "he1"
  /\ UNCHANGED <<rpRoads, rpR1, rpTmp, rpPts>>
  /\ UNCHANGED rpOthers

\* lines 300-303: the highway ends on a ramp, junction = 1
RP_HwyEndRamp ==
  /\ rpStep = "he1"
  /\ rpTmp' = WithJunction(SelectByLocation(rpHe1, Layer(rpRoads, IsRamp)), 1)
  /\ rpPts' = rpPts \o rpTmp'
  /\ rpStep' = "hwyEndRamp"
  /\ UNCHANGED <<rpRoads, rpR1, rpDiss, rpHe1>>
  /\ UNCHANGED rpOthers

\* lines 307-313: the ramp ends on a local road, junction = 2
RP_RampLocal ==
  /\ rpStep = "hwyEndRamp"
  /\ rpTmp' = WithJunction(SelectByLocation(rpR1, Layer(rpRoads, IsLocal)), 2)
  /\ rpPts' = rpPts \o rpTmp'
  /\ rpStep' = "rampLocal"
  /\ UNCHANGED <<rpRoads, rpR1, rpDiss, rpHe1>>
  /\ UNCHANGED rpOthers

\* lines 317-324: the highway ends on a local road that ends there, without
\* those on a ramp, junction = 3
RP_HwyEndLocal ==
  /\ rpStep = "rampLocal"
  /\ rpTmp' = WithJunction(HwyEndsAtLocal(rpRoads, rpDiss, rpHe1), 3)
  /\ rpPts' = rpPts \o rpTmp'
  /\ rpStep' = "hwyEndLocal"
  /\ UNCHANGED <<rpRoads, rpR1, rpDiss, rpHe1>>
  /\ UNCHANGED rpOthers

\* lines 327-330: DeleteIdentical on Shape, deltmp(), return rampPts
RP_DeleteIdentical ==
  /\ rpStep = "hwyEndLocal"
  /\ rpPts' = DeleteIdentical_Shape(rpPts)
  /\ rpR1' = <<>> /\ rpDiss' = <<>> /\ rpHe1' = <<>> /\ rpTmp' = <<>>
  /\ rpStep' = "done"
  /\ UNCHANGED rpRoads
  /\ UNCHANGED rpOthers

(***************************************************************************)
(* MakeRampPoints.py.  The script reads two feature classes, lah and       *)
(* local, and writes rmpt_final_all.  The pieces of the lines are longer   *)
(* than the 5 Meters of the DeleteIdentical tolerance.                     *)
(***************************************************************************)
\* a line INTERSECTs a line: they share a point, be it only an end
LineOnLine(g, h) == StartPt(g) <= EndPt(h) /\ StartPt(h) <= EndPt(g)
LineOnAny(g, lines) == \E i \in DOMAIN lines : LineOnLine(g, lines[i].geom)

\* Select_analysis(lah, 'hwy', 'RmpHwy = 2'), (lah, 'rmp', 'RmpHwy = 1') and
\* (local, "loc", 'RmpHwy <> 1')
Hwy(lah) == SelectSeq(lah, LAMBDA r : r.RmpHwy = 2)
Rmp(lah) == SelectSeq(lah, LAMBDA r : r.RmpHwy = 1)
Loc(local) == SelectSeq(local, LAMBDA r : r.RmpHwy # 1)

\* the rows i of rmp that BOUNDARY_TOUCHES a line of lines
TouchingRamps(rmp, lines) ==
  {i \in DOMAIN rmp : \E j \in DOMAIN lines :
      BoundaryTouches(rmp[i].geom, lines[j].geom, EndPts(lines[j].geom))}

\* the selected rows of a layer, in the order of the rows
Selected(fc, sel) ==
  LET F[i \in 0..Len(fc)] ==
        IF i = 0 THEN <<>>
        ELSE IF i \in sel THEN Append(F[i - 1], fc[i]) ELSE F[i - 1]
  IN  F[Len(fc)]

\* FeatureVerticesToPoints_management(cur, "rmpt1", "BOTH_ENDS"): the points
\* keep the UniqueID of their line
EndPoints(lines) ==
  LET F[i \in 0..Len(lines)] ==
        IF i = 0 THEN <<>>
        ELSE F[i - 1] \o << [pt |-> StartPt(lines[i].geom), UniqueID |-> lines[i].UniqueID],
                            [pt |-> EndPt(lines[i].geom), UniqueID |-> lines[i].UniqueID] >>
  IN  F[Len(lines)]

\* lines 68-77: the ends of the dissolved highways on a local road that
\* INTERSECTs a dissolved highway, without those on a ramp, numbered anew
HwyEndpts(lah, local, diss, he1) ==
  LET locSel == SelectSeq(Loc(local), LAMBDA r : LineOnAny(r.geom, diss))
      sel == SelectSeq(SelectByLocation(he1, locSel),
                       LAMBDA q : ~PtOnAny(q.pt, Rmp(lah)))
  IN  [k \in DOMAIN sel |-> [pt |-> sel[k].pt, UniqueID |-> <<"HWYEND", k>>]]

\* lines 90-100: the ramps that BOUNDARY_TOUCHES a highway, without those
\* that hold an end point, of any of them, that lies on no highway
FixRamps(lah) ==
  LET sel == TouchingRamps(Rmp(lah), Hwy(lah))
      off == SelectSeq(FeatureVerticesToPoints(Selected(Rmp(lah), sel)),
                       LAMBDA q : ~PtOnAny(q.pt, Hwy(lah)))
  IN  {i \in sel : \A k \in DOMAIN off : ~PtOnLine(off[k].pt, Rmp(lah)[i].geom)}

\* Intersect_analysis([base, "loc"], ..., "ONLY_FID", "#", "POINT") and
\* MultipartToSinglepart: one point for each ramp, local road and point in
\* which the two meet without running along each other
MeetPts(g, h) == IF g \cap h = {} THEN {p \in Points : PtOnLine(p, g) /\ PtOnLine(p, h)} ELSE {}

\* Intersect where a point takes the UniqueID of its ramp, as the points of
\* rmpt2 do
Intersect_rampId(rmp, sel, loc) ==
  LET row(i, l) == IF i \in sel /\ MeetPts(rmp[i].geom, loc[l].geom) # {}
                   THEN << [pt |-> CHOOSE p \in MeetPts(rmp[i].geom, loc[l].geom) : TRUE,
                            UniqueID |-> rmp[i].UniqueID] >>
                   ELSE <<>>
      G[i \in DOMAIN rmp, l \in 0..Len(loc)] ==
        IF l = 0 THEN <<>> ELSE G[i, l - 1] \o row(i, l)
      F[i \in 0..Len(rmp)] ==
        IF i = 0 THEN <<>> ELSE F[i - 1] \o G[i, Len(loc)]
  IN  F[Len(rmp)]

Intersect(rmp, sel, loc) ==
  LET row(i, l) == IF i \in sel /\ MeetPts(rmp[i].geom, loc[l].geom) # {}
                   THEN << [pt |-> CHOOSE p \in MeetPts(rmp[i].geom, loc[l].geom) : TRUE,
                            UniqueID |-> <<"NONVAFIX", i>>] >>
                   ELSE <<>>
      G[i \in DOMAIN rmp, l \in 0..Len(loc)] ==
        IF l = 0 THEN <<>> ELSE G[i, l - 1] \o row(i, l)
      F[i \in 0..Len(rmp)] ==
        IF i = 0 THEN <<>> ELSE F[i - 1] \o G[i, Len(loc)]
  IN  F[Len(rmp)]

\* DeleteIdentical that looks at the Shape alone
DeleteIdentical_UNIQUEID_Shape_byShape(pts) ==
  LET first(i) == \A j \in 1..(i - 1) : pts[j].pt # pts[i].pt
      F[i \in 0..Len(pts)] ==
        IF i = 0 THEN <<>>
        ELSE IF first(i) THEN Append(F[i - 1], pts[i]) ELSE F[i - 1]
  IN  F[Len(pts)]

\* DeleteIdentical_management('rmpt_final_all', ['UNIQUEID', 'Shape'], ...):
\* of the points with one UniqueID in one place the first stays
DeleteIdentical_UNIQUEID_Shape(pts) ==
  LET first(i) == \A j \in 1..(i - 1) :
                     pts[j].pt # pts[i].pt \/ pts[j].UniqueID # pts[i].UniqueID
      F[i \in 0..Len(pts)] ==
        IF i = 0 THEN <<>>
        ELSE IF first(i) THEN Append(F[i - 1], pts[i]) ELSE F[i - 1]
  IN  F[Len(pts)]

\* the starts of the dissolved lines: any vertex of a ring
Starts(diss) ==
  {start \in [DOMAIN diss -> Points] :
      \A k \in DOMAIN diss : IF diss[k].ends = {} THEN start[k] \in diss[k].verts
                             ELSE start[k] = 0}

\* the tables of up to n lines that differ in role or in line, in one order
RECURSIVE RoleTables(_, _, _)
RoleTables(roles, n, from) ==
  {<<>>} \cup
  (IF n = 0 THEN {}
   ELSE UNION {{<<[RmpHwy |-> roles[c], geom |-> g]>> \o t
                   : t \in RoleTables(roles, n - 1, RoadCode(c, g) + 1)}
                 : <<c, g>> \in {x \in (DOMAIN roles) \X Lines
                                   : RoadCode(x[1], x[2]) >= from}})

\* the tables of local: a local road or a ramp, and up to n - 1 more local
\* roads that leave the same place
LocalTables(n) ==
  {<<>>} \cup
  {<<[RmpHwy |-> c, geom |-> g]>> \o [i \in 1..k |-> [RmpHwy |-> 0, geom |-> g]]
     : <<c, g, k>> \in {0, 1} \X Lines \X (0..(n - 1))}

MRRecord(raw, id) == [UniqueID |-> <<"TL", id>>, RmpHwy |-> raw.RmpHwy, geom |-> raw.geom]

MRIdle ==
  /\ mrStep = "idle" /\ mrLah = <<>> /\ mrLocal = <<>> /\ mrCur = {}
  /\ mrA = 0 /\ mrB = 0 /\ mrRmpt2 = <<>> /\ mrHwyEndpts = <<>>
  /\ mrFix2 = <<>> /\ mrFinal = <<>>

\* lines 17-24: lah holds highways and ramps, local the other roads and ramps
MRInit ==
  /\ mrStep = "start"
  /\ \E t \in RoleTables(<<2, 1>>, MaxRoads, 0) :
        mrLah = [i \in DOMAIN t |-> MRRecord(t[i], i)]
  /\ \E t \in LocalTables(MaxLocal) :
        mrLocal = [i \in DOMAIN t |-> MRRecord(t[i], MaxRoads + i)]
  /\ mrCur = {} /\ mrA = 0 /\ mrB = 0
  /\ mrRmpt2 = <<>> /\ mrHwyEndpts = <<>> /\ mrFix2 = <<>> /\ mrFinal = <<>>

\* lines 29-39: the ramps that INTERSECT a highway
MR_SelectRampsOnHwy ==
  /\ mrStep = "start"
  /\ mrCur' = {i \in DOMAIN Rmp(mrLah) : LineOnAny(Rmp(mrLah)[i].geom, Hwy(mrLah))}
  /\ mrA' = 0 /\ mrB' = 1
  /\ mrStep' = "cur"
  /\ UNCHANGED <<mrLah, mrLocal, mrRmpt2, mrHwyEndpts, mrFix2, mrFinal>>
  /\ UNCHANGED mrOthers

\* lines 40-45: one turn of the while loop
MR_AddTouchingRamps ==
  /\ mrStep = "cur"
  /\ mrA # mrB
  /\ mrA' = Cardinality(mrCur)
  /\ mrCur' = mrCur \cup TouchingRamps(Rmp(mrLah), Selected(Rmp(mrLah), mrCur))
  /\ mrB' = Cardinality(mrCur')
  /\ UNCHANGED <<mrStep, mrLah, mrLocal, mrRmpt2, mrHwyEndpts, mrFix2, mrFinal>>
  /\ UNCHANGED mrOthers

\* lines 48-58: the end points of the selected ramps on a local road
MR_RampLocal ==
  /\ mrStep = "cur"
  /\ mrA = mrB
  /\ mrRmpt2' = SelectByLocation(EndPoints(Selected(Rmp(mrLah), mrCur)), Loc(mrLocal))
  /\ mrStep' = "rmpt2"
  /\ UNCHANGED <<mrLah, mrLocal, mrCur, mrA, mrB, mrHwyEndpts, mrFix2, mrFinal>>
  /\ UNCHANGED mrOthers

\* lines 61-77: the highway ends that turn into local roads
MR_HwyEnd ==
  /\ mrStep = "rmpt2"
  /\ \E start \in Starts(Dissolve(Hwy(mrLah))) :
        mrHwyEndpts' = HwyEndpts(mrLah, mrLocal, Dissolve(Hwy(mrLah)),
                                 He1(Dissolve(Hwy(mrLah)), start))
  /\ mrStep' = "hwy_endpts"
  /\ UNCHANGED <<mrLah, mrLocal, mrCur, mrA, mrB, mrRmpt2, mrFix2, mrFinal>>
  /\ UNCHANGED mrOthers

\* lines 90-108: the TIGER/Line fix
MR_TigerFix ==
  /\ mrStep = "hwy_endpts"
  /\ mrCur' = FixRamps(mrLah)
  /\ mrFix2' = Intersect(Rmp(mrLah), mrCur', Loc(mrLocal))
  /\ mrStep' = "rmpt2_nonVAfix2"
  /\ UNCHANGED <<mrLah, mrLocal, mrA, mrB, mrRmpt2, mrHwyEndpts, mrFinal>>
  /\ UNCHANGED mrOthers

\* line 117: Merge_management
MR_Merge ==
  /\ mrStep = "rmpt2_nonVAfix2"
  /\ mrFinal' = mrRmpt2 \o mrFix2 \o mrHwyEndpts
  /\ mrStep' = "merged"
  /\ UNCHANGED <<mrLah, mrLocal, mrCur, mrA, mrB, mrRmpt2, mrHwyEndpts, mrFix2>>
  /\ UNCHANGED mrOthers

\* line 118: DeleteIdentical_management on rmpt_final_all
MR_DeleteIdentical ==
  /\ mrStep = "merged"
  /\ mrFinal' = DeleteIdentical_UNIQUEID_Shape(mrFinal)
  /\ mrStep' = "done"
  /\ UNCHANGED <<mrLah, mrLocal, mrCur, mrA, mrB, mrRmpt2, mrHwyEndpts, mrFix2>>
  /\ UNCHANGED mrOthers

(***************************************************************************)
(* MakeNetworkDataset_tt (ProcRoads.py) and makeNetworkDataset (ProcOSM.py)*)
(***************************************************************************)
\* RemoveDupRoads(inRoads, outRoads) as one call: the tables outRoads may be.
\* DeleteIdentical leaves, of the rows of a TARGET_FID, the one that Sort has
\* put first, which is any of the rows that none of them comes before; the
\* rows that are left stand in an order of Sort.  The orders of Sort that
\* differ in the deleted rows alone are not listed one by one.
RemoveDupRoads(inRoads, sort_fld) ==
  LET road1 == SpatialJoin(CountOverlappingFeatures(inRoads), inRoads)
      fids == {road1[i].TARGET_FID : i \in DOMAIN road1}
      firsts(f) == {i \in DOMAIN road1 :
                      /\ road1[i].TARGET_FID = f
                      /\ \A k \in DOMAIN road1 :
                            road1[k].TARGET_FID = f => ~Before(road1[k], road1[i], sort_fld)}
  IN  UNION {SortOrders(road1, {w[f] : f \in fids}, sort_fld)
               : w \in {v \in [fids -> DOMAIN road1] : \A f \in fids : v[f] \in firsts(f)}}

\* the rows of outRoads with the other attributes of the input road they are
\* joined to
WithRoadAttributes(out, inRoads) ==
  [i \in DOMAIN out |->
     [TARGET_FID |-> out[i].TARGET_FID, LINEARID |-> out[i].LINEARID,
      Speed_upd |-> out[i].Speed_upd, geom |-> out[i].geom,
      MTFCC |-> inRoads[out[i].JOIN_FID].MTFCC,
      RmpHwy |-> inRoads[out[i].JOIN_FID].RmpHwy]]

\* RampPts(roads, rampPts) as one call, start giving the start of the rings
RampPts(roads, start) ==
  LET r1 == FeatureVerticesToPoints(Layer(roads, IsRamp))
      diss == Dissolve(Layer(roads, IsHighway))
      he1 == He1(diss, start)
  IN  DeleteIdentical_Shape(
         WithJunction(SelectByLocation(r1, Layer(roads, IsHighway)), 1)
         \o WithJunction(SelectByLocation(he1, Layer(roads, IsRamp)), 1)
         \o WithJunction(SelectByLocation(r1, Layer(roads, IsLocal)), 2)
         \o WithJunction(HwyEndsAtLocal(roads, diss, he1), 3))

\* the outputs RampPts(roads, rampPts) may have
RampPtsOf(roads) ==
  {RampPts(roads, start) : start \in Starts(Dissolve(Layer(roads, IsHighway)))}

NoFd == [roads_limitedAccess |-> <<>>, roads_ramps |-> <<>>, roads_local |-> <<>>,
         ramps_limitedAccess |-> <<>>, ramps_local |-> <<>>,
         limitedAccess_local |-> <<>>]

\* a road as PrepRoadsTIGER_tt leaves it, with RTTYP = 'M' and outside the
\* urban areas
NTRecord(raw, id) ==
  [LINEARID |-> id, MTFCC |-> raw.MTFCC, geom |-> raw.geom,
   RmpHwy |-> RmpHwy_TIGER(raw.MTFCC), Speed_upd |-> Speed(raw.MTFCC, "M")]

NTIdle ==
  /\ ntStep = "idle" /\ ntIn = <<>> /\ ntNodup = <<>> /\ ntPts = <<>> /\ ntFd = NoFd

NTInit ==
  /\ ntStep = "start"
  /\ \E t \in RoadTables(MaxNet, 0) :
        ntIn = [i \in DOMAIN t |-> NTRecord(t[i], i)]
  /\ ntNodup = <<>> /\ ntPts = <<>> /\ ntFd = NoFd

\* line 349: RemoveDupRoads(inRoads, rd_nodup)
NT_RemoveDupRoads ==
  /\ ntStep = "start"
  /\ \E out \in RemoveDupRoads(ntIn, << <<"Speed_upd", "DESCENDING">> >>) :
        ntNodup' = WithRoadAttributes(out, ntIn)
  /\ ntStep' = "rd_nodup"
  /\ UNCHANGED <<ntIn, ntPts, ntFd>>
  /\ UNCHANGED ntOthers

\* line 349: RemoveDupRoads raises arcpy.ExecuteError, which nothing catches
NT_ExecuteError ==
  /\ ntStep = "start"
  /\ ntStep' = "ExecuteError"
  /\ UNCHANGED <<ntIn, ntNodup, ntPts, ntFd>>
  /\ UNCHANGED ntOthers

\* RampPts called with rd_nodup
NT_RampPts_nodup ==
  /\ ntStep = "rd_nodup"
  /\ ntPts' \in RampPtsOf(ntNodup)
  /\ ntStep' = "rmp_pts"
  /\ UNCHANGED <<ntIn, ntNodup, ntFd>>
  /\ UNCHANGED ntOthers

\* line 352: RampPts(inRoads, rmp_pts)
NT_RampPts ==
  /\ ntStep = "rd_nodup"
  /\ ntPts' \in RampPtsOf(ntIn)
  /\ ntStep' = "rmp_pts"
  /\ UNCHANGED <<ntIn, ntNodup, ntFd>>
  /\ UNCHANGED ntOthers

\* lines 355-359: the three road feature classes, from rd_nodup
NT_Roads ==
  /\ ntStep = "rmp_pts"
  /\ ntFd' = [ntFd EXCEPT !.roads_limitedAccess = Layer(ntNodup, IsHighway),
                          !.roads_ramps = Layer(ntNodup, IsRamp),
                          !.roads_local = Layer(ntNodup, IsLocal)]
  /\ ntStep' = "roads"
  /\ UNCHANGED <<ntIn, ntNodup, ntPts>>
  /\ UNCHANGED ntOthers

\* lines 360-368: the three junction feature classes, from rmp_pts, and the
\* network dataset
NT_Junctions ==
  /\ ntStep = "roads"
  /\ ntFd' = [ntFd EXCEPT
                !.ramps_limitedAccess = SelectSeq(ntPts, LAMBDA q : q.junction = 1),
                !.ramps_local = SelectSeq(ntPts, LAMBDA q : q.junction = 2),
                !.limitedAccess_local = SelectSeq(ntPts, LAMBDA q : q.junction = 3)]
  /\ ntStep' = "done"
  /\ UNCHANGED <<ntIn, ntNodup, ntPts>>
  /\ UNCHANGED ntOthers

OSM_NET_CODE == <<5111, 5131, 5122>>

NoNet == [Ramp_Points |-> <<>>, Roads_Hwy |-> <<>>, Roads_Local |-> <<>>]

ONIdle == onStep = "idle" /\ onIn = <<>> /\ onFd = NoNet

\* inRoads as attributeOSM leaves them: RmpHwy is rmpHwy(code)
ONInit ==
  /\ onStep = "start"
  /\ \E t \in RoleTables(OSM_NET_CODE, MaxNet, 0) :
        onIn = [i \in DOMAIN t |-> [osm_id |-> i, code |-> t[i].RmpHwy,
                                    RmpHwy |-> rmpHwy(t[i].RmpHwy), geom |-> t[i].geom]]
  /\ onFd = NoNet

\* lines 273-286: the ends of the ramps on another road
ON_RampPoints ==
  /\ onStep = "start"
  /\ onFd' = [onFd EXCEPT !.Ramp_Points =
                 SelectByLocation(
                    FeatureVerticesToPoints(SelectSeq(onIn, LAMBDA r : r.RmpHwy = 1)),
                    SelectSeq(onIn, LAMBDA r : r.RmpHwy # 1))]
  /\ onStep' = "Ramp_Points"
  /\ UNCHANGED onIn
  /\ UNCHANGED onOthers

\* lines 291-293: "RmpHwy IN (1,2)"
ON_RoadsHwy ==
  /\ onStep = "Ramp_Points"
  /\ onFd' = [onFd EXCEPT !.Roads_Hwy = SelectSeq(onIn, LAMBDA r : r.RmpHwy \in {1, 2})]
  /\ onStep' = "Roads_Hwy"
  /\ UNCHANGED onIn
  /\ UNCHANGED onOthers

\* lines 295-302: SWITCH_SELECTION, and the network dataset
ON_RoadsLocal ==
  /\ onStep = "Roads_Hwy"
  /\ onFd' = [onFd EXCEPT !.Roads_Local = SelectSeq(onIn, LAMBDA r : r.RmpHwy \notin {1, 2})]
  /\ onStep' = "done"
  /\ UNCHANGED onIn
  /\ UNCHANGED onOthers

(***************************************************************************)
(* CostSurfTravTime (CostDist.py).  The snap raster has one cell per unit  *)
(* piece of the line; a raster is a function from the cells to NoData      *)
(* (<<>>) or a value.  ProjectToMatch changes the coordinate system and    *)
(* not the attributes, nor which cells a road crosses.  The field len is   *)
(* the length of the road inside each cell it crosses.                     *)
(***************************************************************************)
NoRaster == [c \in Cells |-> None]

\* the roads handed to the function: rows of PrepRoadsTIGER_tt's output
CS_CLASS == <<<<"S1100", "I">>, <<"S1630", "M">>, <<"S1200", "S">>, <<"S1400", "M">>>>
CS_LEN == {1, 2}

CSRecord(c, g, l) ==
  [MTFCC |-> CS_CLASS[c][1],
   RmpHwy |-> RmpHwy_TIGER(CS_CLASS[c][1]),
   Speed_upd |-> Speed(CS_CLASS[c][1], CS_CLASS[c][2]),
   TravTime |-> TravTime_TIGER(Some(Speed(CS_CLASS[c][1], CS_CLASS[c][2]))),
   geom |-> g, len |-> l]

CSCode(c, g, l) == 2 * RoadCode(c, g) + (l - 1)

RECURSIVE CSTables(_, _)
CSTables(n, from) ==
  {<<>>} \cup
  (IF n = 0 THEN {}
   ELSE UNION {{<<CSRecord(x[1], x[2], x[3])>> \o t
                   : t \in CSTables(n - 1, CSCode(x[1], x[2], x[3]) + 1)}
                 : x \in {y \in (DOMAIN CS_CLASS) \X Lines \X CS_LEN
                            : CSCode(y[1], y[2], y[3]) >= from}})

\* the rows that may give a cell its value when the cell assignment type
\* alone decides: MAXIMUM_LENGTH, the longest inside the cell
MaximumLength(roads, among) ==
  {i \in among : \A j \in among : roads[j].len <= roads[i].len}

\* PolylineToRaster_conversion(.., valFld, .., "MAXIMUM_LENGTH", priFld, ..)
\* without the priority field
PolylineToRaster_noPriority(roads) ==
  {rast \in [Cells -> {None} \cup {roads[i].TravTime : i \in DOMAIN roads}] :
     \A c \in Cells :
       IF Cover(roads, c) = {} THEN rast[c] = None
       ELSE \E i \in MaximumLength(roads, Cover(roads, c)) : rast[c] = roads[i].TravTime}

\* PolylineToRaster_conversion(.., valFld, .., "MAXIMUM_LENGTH", priFld, ..):
\* the row with the largest priority wins the cell whatever the cell
\* assignment type; the cell assignment type decides among equal priorities,
\* and any of the rows it leaves may win
PolylineToRaster(roads) ==
  {rast \in [Cells -> {None} \cup {roads[i].TravTime : i \in DOMAIN roads}] :
     \A c \in Cells :
       IF Cover(roads, c) = {} THEN rast[c] = None
       ELSE \E i \in MaximumLength(roads,
                       {k \in Cover(roads, c) :
                          \A j \in Cover(roads, c) : roads[j].Speed_upd <= roads[k].Speed_upd}) :
              rast[c] = roads[i].TravTime}

\* the walking speed of 3 miles/hour as minutes per meter: 0.01233
WALK_TRAVTIME == Frac(1233, 100000)

\* Con(IsNull(tmpRast), 0.01233, tmpRast)
Con_IsNull(rast) == [c \in Cells |-> IF IsNone(rast[c]) THEN WALK_TRAVTIME ELSE rast[c]]

CSIdle ==
  /\ csStep = "idle" /\ csRoads = <<>> /\ csLahOnly = FALSE
  /\ csTmp = NoRaster /\ csOut = NoRaster

CSInit ==
  /\ csStep = "start"
  /\ csRoads \in CSTables(MaxCost, 0)
  /\ csLahOnly \in BOOLEAN
  /\ csTmp = NoRaster /\ csOut = NoRaster

CS_PolylineToRaster ==
  /\ csStep = "start"
  /\ csTmp' \in PolylineToRaster(csRoads)
  /\ csStep' = "tmpRast"
  /\ UNCHANGED <<csRoads, csLahOnly, csOut>>
  /\ UNCHANGED csOthers

\* lahOnly: the background stays NoData
CS_CopyRaster ==
  /\ csStep = "tmpRast" /\ csLahOnly
  /\ csOut' = csTmp
  /\ csStep' = "outCostSurf"
  /\ UNCHANGED <<csRoads, csLahOnly, csTmp>>
  /\ UNCHANGED csOthers

CS_Con ==
  /\ csStep = "tmpRast" /\ ~csLahOnly
  /\ csOut' = Con_IsNull(csTmp)
  /\ csStep' = "outCostSurf"
  /\ UNCHANGED <<csRoads, csLahOnly, csTmp>>
  /\ UNCHANGED csOthers

\* the cleanup: tmpRast is deleted, or the failure to delete it is caught
CS_Delete ==
  /\ csStep = "outCostSurf"
  /\ csTmp' \in {NoRaster, csTmp}
  /\ csStep' = "done"
  /\ UNCHANGED <<csRoads, csLahOnly, csOut>>
  /\ UNCHANGED csOthers

(***************************************************************************)
(* BatchDownloadZips (BatchDownloadZipFiles.py) and BatchExtractZipFiles   *)
(* (BatchExtractZipFiles.py).  Whether a call on the FTP server or the     *)
(* file system succeeds is the environment's choice.  A call made is       *)
(* written to dlTrace as an event.                                         *)
(***************************************************************************)
FileNames == 1..MaxFiles
Event(e, k) == [ev |-> e, k |-> k]
Events(trace, e) == {i \in DOMAIN trace : trace[i].ev = e}

\* out_dir before the downloads: no file
NoFiles == [f \in FileNames |-> "none"]
\* the zip files of a directory, as os.listdir gives them
ListDir(dir) ==
  LET names == {f \in FileNames : dir[f] # "none"}
  IN  {z \in [1..Cardinality(names) -> names] :
         \A i, j \in DOMAIN z : i < j => z[i] < z[j]}

DLIdle ==
  /\ dlStep = "idle" /\ dlExtract = FALSE /\ FileList = <<>> /\ ProcList = <<>>
  /\ dlLog = <<>> /\ dlI = 0 /\ dlTrace = <<>> /\ dlFailed = {} /\ dlDir = NoFiles

EXIdle ==
  /\ exStep = "idle" /\ exDir = NoFiles /\ zfiles = <<>> /\ exI = 0
  /\ exLog = <<>> /\ exTried = <<>> /\ exFailed = {}

\* the log file is open and holds its first line
DLInit ==
  /\ dlStep = "start" /\ dlExtract \in BOOLEAN /\ FileList = <<>> /\ ProcList = <<>>
  /\ dlLog = <<"Process logging started">> /\ dlI = 0 /\ dlTrace = <<>>
  /\ dlFailed = {} /\ dlDir = NoFiles

dlKeep == <<dlExtract, ProcList, dlI, dlFailed, dlDir>>

\* csv.DictReader over in_tab; any error leaves through exit().  An event
\* of one of the four opening calls holds 1 when the call succeeded
DL_Parse ==
  /\ dlStep = "start"
  /\ \/ /\ FileList' \in {<<>>} \cup SeqsUpTo(FileNames, MaxFiles)
        /\ dlStep' = "parsed"
        /\ dlTrace' = Append(dlTrace, Event("parse", 1))
        /\ UNCHANGED dlLog
     \/ /\ dlStep' = "exit"
        /\ dlTrace' = Append(dlTrace, Event("parse", 0))
        /\ dlLog' = Append(dlLog, "Unable to parse input table.  Exiting...")
        /\ UNCHANGED FileList
  /\ UNCHANGED dlKeep
  /\ UNCHANGED <<exVars, dlOthers>>

\* ftplib.FTP(ftpHOST): a socket error is logged and leaves through exit(),
\* another error leaves the function uncaught
DL_Connect ==
  /\ dlStep = "parsed"
  /\ \/ /\ dlStep' = "connected" /\ dlLog' = Append(dlLog, "CONNECTED TO HOST")
        /\ dlTrace' = Append(dlTrace, Event("connect", 1))
     \/ /\ dlStep' = "exit" /\ dlLog' = Append(dlLog, "Error: cannot reach")
        /\ dlTrace' = Append(dlTrace, Event("connect", 0))
     \/ /\ dlStep' = "raised" /\ UNCHANGED dlLog
        /\ dlTrace' = Append(dlTrace, Event("connect", 0))
  /\ UNCHANGED <<FileList, dlKeep>>
  /\ UNCHANGED <<exVars, dlOthers>>

\* DL_Login without the exit() of the except clause
DL_Login_noExit ==
  /\ dlStep = "connected"
  /\ \/ /\ dlStep' = "logged in" /\ UNCHANGED dlLog
        /\ dlTrace' = Append(dlTrace, Event("login", 1))
     \/ /\ dlStep' = "logged in" /\ dlLog' = Append(dlLog, "Error: cannot login annonymously")
        /\ dlTrace' = Append(dlTrace, Event("login", 0))
     \/ /\ dlStep' = "raised" /\ UNCHANGED dlLog
        /\ dlTrace' = Append(dlTrace, Event("login", 0))
  /\ UNCHANGED <<FileList, dlKeep>>
  /\ UNCHANGED <<exVars, dlOthers>>

\* ftp.login(): a permission error is logged and leaves through exit(),
\* another error leaves the function uncaught
DL_Login ==
  /\ dlStep = "connected"
  /\ \/ /\ dlStep' = "logged in" /\ UNCHANGED dlLog
        /\ dlTrace' = Append(dlTrace, Event("login", 1))
     \/ /\ dlStep' = "exit" /\ dlLog' = Append(dlLog, "Error: cannot login annonymously")
        /\ dlTrace' = Append(dlTrace, Event("login", 0))
     \/ /\ dlStep' = "raised" /\ UNCHANGED dlLog
        /\ dlTrace' = Append(dlTrace, Event("login", 0))
  /\ UNCHANGED <<FileList, dlKeep>>
  /\ UNCHANGED <<exVars, dlOthers>>

\* ftp.cwd(ftpDIR), the same way
DL_Cwd ==
  /\ dlStep = "logged in"
  /\ \/ /\ dlStep' = "downloading" /\ dlI' = 1 /\ UNCHANGED dlLog
        /\ dlTrace' = Append(dlTrace, Event("cwd", 1))
     \/ /\ dlStep' = "exit" /\ dlLog' = Append(dlLog, "Error: cannot CD to") /\ UNCHANGED dlI
        /\ dlTrace' = Append(dlTrace, Event("cwd", 0))
     \/ /\ dlStep' = "raised" /\ UNCHANGED <<dlLog, dlI>>
        /\ dlTrace' = Append(dlTrace, Event("cwd", 0))
  /\ UNCHANGED <<FileList, dlExtract, ProcList, dlFailed, dlDir>>
  /\ UNCHANGED <<exVars, dlOthers>>

\* DL_Download where a failure ends the loop
DL_Download_break ==
  /\ dlStep = "downloading" /\ dlI <= Len(FileList)
  /\ dlTrace' = Append(dlTrace, Event("RETR", dlI))
  /\ \/ /\ ProcList' = Append(ProcList, <<"Successfully downloaded", FileList[dlI]>>)
        /\ dlDir' = [dlDir EXCEPT ![FileList[dlI]] = "zip"]
        /\ dlI' = dlI + 1
        /\ UNCHANGED dlFailed
     \/ /\ ProcList' = Append(ProcList, <<"Failed to download", FileList[dlI]>>)
        /\ dlFailed' = dlFailed \cup {dlI}
        /\ dlI' = Len(FileList) + 1
        /\ UNCHANGED dlDir
  /\ UNCHANGED <<dlStep, dlExtract, FileList, dlLog>>
  /\ UNCHANGED <<exVars, dlOthers>>

\* one turn of "for fileName in FileList": the local file is opened and the
\* file retrieved; an error of either is caught and written to ProcList
DL_Download ==
  /\ dlStep = "downloading" /\ dlI <= Len(FileList)
  /\ dlTrace' = Append(dlTrace, Event("RETR", dlI))
  /\ \/ /\ ProcList' = Append(ProcList, <<"Successfully downloaded", FileList[dlI]>>)
        /\ dlDir' = [dlDir EXCEPT ![FileList[dlI]] = "zip"]
        /\ UNCHANGED dlFailed
     \/ /\ ProcList' = Append(ProcList, <<"Failed to download", FileList[dlI]>>)
        /\ dlFailed' = dlFailed \cup {dlI}
        /\ \E left \in {dlDir[FileList[dlI]], "not zip"} :
             dlDir' = [dlDir EXCEPT ![FileList[dlI]] = left]
  /\ dlI' = dlI + 1
  /\ UNCHANGED <<dlStep, dlExtract, FileList, dlLog>>
  /\ UNCHANGED <<exVars, dlOthers>>

\* the results are written to the log and the log is closed
DL_CloseLog ==
  /\ dlStep = "downloading" /\ dlI > Len(FileList)
  /\ dlTrace' = Append(dlTrace, Event("close", 0))
  /\ dlLog' = dlLog \o ProcList \o <<"Process logging ended">>
  /\ dlStep' = "logged"
  /\ UNCHANGED <<FileList, dlKeep>>
  /\ UNCHANGED <<exVars, dlOthers>>

\* extract: BatchExtractZipFiles(out_dir, out_dir + os.sep + 'unzip') is called
DL_Extract ==
  /\ dlStep = "logged" /\ dlExtract
  /\ dlTrace' = Append(dlTrace, Event("extract", 0))
  /\ dlStep' = "extracting"
  /\ exStep' = "start" /\ exDir' = dlDir
  /\ UNCHANGED <<zfiles, exI, exLog, exTried, exFailed>>
  /\ UNCHANGED <<FileList, dlLog, dlKeep>>
  /\ UNCHANGED dlOthers

\* the call returned, or its error was caught: 'Error unzipping files.'
DL_Return ==
  /\ \/ dlStep = "logged" /\ ~dlExtract
     \/ dlStep = "extracting" /\ exStep \in {"done", "raised"}
  /\ dlStep' = "done"
  /\ UNCHANGED <<FileList, dlLog, dlTrace, dlKeep>>
  /\ UNCHANGED <<exVars, dlOthers>>

\* BatchExtractZipFiles called by itself
EXInit ==
  /\ exStep = "start" /\ exDir \in [FileNames -> {"none", "zip", "not zip"}]
  /\ zfiles = <<>> /\ exI = 0 /\ exLog = <<>> /\ exTried = <<>> /\ exFailed = {}

exKeep == <<dlVars, exOthers>>

\* OutDir is made and ZipLog.txt opened, outside the try
EX_OpenLog ==
  /\ exStep = "start"
  /\ exStep' \in {"open", "raised"}
  /\ UNCHANGED <<exDir, zfiles, exI, exLog, exTried, exFailed>>
  /\ UNCHANGED exKeep

\* os.listdir(ZipDir), limited to the names holding '.zip'; an error is
\* caught by the outer except and the log is closed
EX_ListDir ==
  /\ exStep = "open"
  /\ \/ zfiles' \in ListDir(exDir) /\ exI' = 1 /\ exStep' = "extracting"
     \/ exStep' = "done" /\ UNCHANGED <<zfiles, exI>>
  /\ UNCHANGED <<exDir, exLog, exTried, exFailed>>
  /\ UNCHANGED exKeep

\* one turn of "for zfile in zfiles"
EX_Extract ==
  /\ exStep = "extracting" /\ exI <= Len(zfiles)
  /\ IF exDir[zfiles[exI]] = "zip"
     THEN /\ exTried' = Append(exTried, exI)
          /\ \/ /\ exLog' = Append(exLog, <<"extracted", zfiles[exI]>>)
                /\ UNCHANGED exFailed
             \/ /\ exLog' = Append(exLog, <<"Warning: Failed to extract", zfiles[exI]>>)
                /\ exFailed' = exFailed \cup {exI}
     ELSE /\ exLog' = Append(exLog, <<"Warning: not a valid zip file", zfiles[exI]>>)
          /\ UNCHANGED <<exTried, exFailed>>
  /\ exI' = exI + 1
  /\ UNCHANGED <<exStep, exDir, zfiles>>
  /\ UNCHANGED exKeep

\* finally: log.close()
EX_CloseLog ==
  /\ exStep = "extracting" /\ exI > Len(zfiles)
  /\ exStep' = "done"
  /\ UNCHANGED <<exDir, zfiles, exI, exLog, exTried, exFailed>>
  /\ UNCHANGED exKeep

(***************************************************************************)
(* RecServiceAreas (RunServiceAreaAnalysisLoop.py) and RecRastFromPolys.py *)
(***************************************************************************)
GroupIds == 1..MaxFiles

\* sorted(set): the members of s in ascending order
Sorted(s) ==
  CHOOSE q \in [1..Cardinality(s) -> s] : \A i, j \in DOMAIN q : i < j => q[i] < q[j]

SAIdle ==
  /\ saStep = "idle" /\ inFacilities = {} /\ id_List = <<>> /\ saMyIndex = 0
  /\ saMyFailList = <<>> /\ saTried = <<>> /\ saFailed = {} /\ saOut = {} /\ saMsgs = <<>>

SAInit ==
  /\ saStep = "start" /\ inFacilities \in SUBSET GroupIds /\ id_List = <<>> /\ saMyIndex = 0
  /\ saMyFailList = <<>> /\ saTried = <<>> /\ saFailed = {} /\ saOut = {} /\ saMsgs = <<>>

\* up to the loop: the output folder exists already and the function leaves
\* through exit(), or a geoprocessing call raises, or the service area layer
\* is made and the group IDs are listed
SA_Setup ==
  /\ saStep = "start"
  /\ \/ saStep' \in {"exit", "raised"} /\ UNCHANGED <<id_List, saMyIndex>>
     \/ saStep' = "loop" /\ id_List' = Sorted(inFacilities) /\ saMyIndex' = 1
  /\ UNCHANGED <<inFacilities, saMyFailList, saTried, saFailed, saOut, saMsgs>>
  /\ UNCHANGED saOthers

\* one turn of "for id in id_List"
SA_Group ==
  /\ saStep = "loop" /\ saMyIndex <= Len(id_List)
  /\ saTried' = Append(saTried, id_List[saMyIndex])
  /\ \/ /\ saOut' = saOut \cup {id_List[saMyIndex]}
        /\ UNCHANGED <<saMyFailList, saFailed, saMsgs>>
     \/ /\ saMsgs' = Append(saMsgs, <<"Failed for", <<id_List[saMyIndex]>>>>)
        /\ saMyFailList' = Append(saMyFailList, id_List[saMyIndex])
        /\ saFailed' = saFailed \cup {saMyIndex}
        /\ UNCHANGED saOut
  /\ saMyIndex' = saMyIndex + 1
  /\ UNCHANGED <<saStep, inFacilities, id_List>>
  /\ UNCHANGED saOthers

\* the final summary, written when myFailList is not empty
Summary(msgs, myFailList) ==
  IF Len(myFailList) > 0 THEN Append(msgs, <<"Process complete, but the following failed", myFailList>>)
  ELSE msgs

SA_Summary ==
  /\ saStep = "loop" /\ saMyIndex > Len(id_List)
  /\ saMsgs' = Summary(saMsgs, saMyFailList)
  /\ saStep' = "done"
  /\ UNCHANGED <<inFacilities, id_List, saMyIndex, saMyFailList, saTried, saFailed, saOut>>
  /\ UNCHANGED saOthers

RRIdle ==
  /\ rrStep = "idle" /\ inGDB = {} /\ inPolys = <<>> /\ rrMyIndex = 0
  /\ rrMyFailList = <<>> /\ rrTried = <<>> /\ rrFailed = {} /\ sumRast = {} /\ rrMsgs = <<>>

RRInit ==
  /\ rrStep = "start" /\ inGDB \in SUBSET GroupIds /\ inPolys = <<>> /\ rrMyIndex = 0
  /\ rrMyFailList = <<>> /\ rrTried = <<>> /\ rrFailed = {} /\ sumRast = {} /\ rrMsgs = <<>>

\* up to the loop: the running sum raster is a copy of the zero raster and
\* the polygon feature classes are listed, or a call raises
RR_Setup ==
  /\ rrStep = "start"
  /\ \/ rrStep' = "raised" /\ UNCHANGED <<inPolys, rrMyIndex>>
     \/ rrStep' = "loop" /\ inPolys' = Sorted(inGDB) /\ rrMyIndex' = 1
  /\ UNCHANGED <<inGDB, rrMyFailList, rrTried, rrFailed, sumRast, rrMsgs>>
  /\ UNCHANGED rrOthers

\* one turn of "for poly in inPolys"; the except clause names the method
\* myFailList.append and does not call it
RR_Poly ==
  /\ rrStep = "loop" /\ rrMyIndex <= Len(inPolys)
  /\ rrTried' = Append(rrTried, inPolys[rrMyIndex])
  /\ \/ /\ sumRast' = sumRast \cup {inPolys[rrMyIndex]}
        /\ UNCHANGED <<rrFailed, rrMsgs>>
     \/ /\ rrMsgs' = Append(rrMsgs, <<"Processing for polygon failed", <<rrMyIndex>>>>)
        /\ rrFailed' = rrFailed \cup {rrMyIndex}
        /\ UNCHANGED sumRast
  /\ rrMyIndex' = rrMyIndex + 1
  /\ UNCHANGED <<rrStep, inGDB, inPolys, rrMyFailList>>
  /\ UNCHANGED rrOthers

RR_Summary ==
  /\ rrStep = "loop" /\ rrMyIndex > Len(inPolys)
  /\ rrMsgs' = Summary(rrMsgs, rrMyFailList)
  /\ rrStep' = "done"
  /\ UNCHANGED <<inGDB, inPolys, rrMyIndex, rrMyFailList, rrTried, rrFailed, sumRast>>
  /\ UNCHANGED rrOthers

(***************************************************************************)
(* FilterRoads_dens (ProcRoads.py)                                         *)
(***************************************************************************)
\* the selection query of a selType: the texts of its IN list
selQry(t) ==
  IF t = "ALL" THEN {"S1100", "S1200", "S1640", "S1400", "S1730", "1740"}
  ELSE IF t = "NO_HIGHWAY" THEN {"S1200", "S1640", "S1400", "S1730", "1740"}
  ELSE IF t = "LOCAL" THEN {"S1640", "S1400", "S1730", "1740"}
  ELSE {}

SEL_TYPE == {"ALL", "NO_HIGHWAY", "LOCAL", "HIGHWAY"}
FD_MTFCC == <<"S1100", "S1200", "S1640", "S1400", "S1730", "S1740", "S1630">>

RECURSIVE FDTables(_, _)
FDTables(n, from) ==
  {<<>>} \cup
  (IF n = 0 THEN {}
   ELSE UNION {{<<[MTFCC |-> FD_MTFCC[c], geom |-> g]>> \o t
                   : t \in FDTables(n - 1, RoadCode(c, g) + 1)}
                 : <<c, g>> \in {x \in (DOMAIN FD_MTFCC) \X Lines
                                   : RoadCode(x[1], x[2]) >= from}})

FDIdle ==
  /\ fdStep = "idle" /\ fdIn = <<>> /\ selType = "" /\ tmpRoads = <<>> /\ fdOut = <<>>

FDInit ==
  /\ fdStep = "start"
  /\ \E t \in FDTables(MaxDens, 0) : fdIn = [i \in DOMAIN t |-> NTRecord(t[i], i)]
  /\ selType \in SEL_TYPE
  /\ tmpRoads = <<>> /\ fdOut = <<>>

\* the selection query is chosen, or the function leaves through sys.exit();
\* Select_analysis(inRoads, tmpRoads, selQry)
FD_Select ==
  /\ fdStep = "start"
  /\ IF selType \in {"ALL", "NO_HIGHWAY", "LOCAL"}
     THEN /\ tmpRoads' = SelectSeq(fdIn, LAMBDA r : r.MTFCC \in selQry(selType))
          /\ fdStep' = "tmpRoads"
     ELSE /\ fdStep' = "exit"
          /\ UNCHANGED tmpRoads
  /\ UNCHANGED <<fdIn, selType, fdOut>>
  /\ UNCHANGED fdOthers

\* RemoveDupRoads(tmpRoads, outRoads)
FD_RemoveDupRoads ==
  /\ fdStep = "tmpRoads"
  /\ \E out \in RemoveDupRoads(tmpRoads, << <<"Speed_upd", "DESCENDING">> >>) :
        fdOut' = WithRoadAttributes(out, tmpRoads)
  /\ fdStep' = "done"
  /\ UNCHANGED <<fdIn, selType, tmpRoads>>
  /\ UNCHANGED fdOthers

\* RemoveDupRoads raises arcpy.ExecuteError, which nothing catches
FD_ExecuteError ==
  /\ fdStep = "tmpRoads"
  /\ fdStep' = "ExecuteError"
  /\ UNCHANGED <<fdIn, selType, tmpRoads, fdOut>>
  /\ UNCHANGED fdOthers

(***************************************************************************)
(* MakeRampPoints.py, lines 32 to 45: the loop that adds touching ramps.   *)
(* The loop reads the geometry through two relations only: which ramps     *)
(* intersect a highway, and which pairs of ramps touch at their            *)
(* boundaries.  Here the two relations are any relations over MaxRamps     *)
(* ramps, so that chains and branches of ramps of every shape occur, which *)
(* roads on one line of NCells pieces cannot form.                         *)
(***************************************************************************)
Ramps == 1..MaxRamps
TouchPairs == {p \in SUBSET Ramps : Cardinality(p) = 2}

\* SelectLayerByLocation(base, "BOUNDARY_TOUCHES", cur, "#", "NEW_SELECTION")
Touching(touch, cur) == {r \in Ramps : \E q \in cur : {r, q} \in touch}

\* SelectLayerByLocation(base, "BOUNDARY_TOUCHES", cur, "#", "ADD_TO_SELECTION")
AddTouching(touch, cur) == cur \cup Touching(touch, cur)

RLIdle ==
  /\ rlStep = "idle" /\ rlOnHwy = {} /\ rlTouch = {} /\ rlCur = {} /\ rlA = 0 /\ rlB = 0

RLInit ==
  /\ rlStep = "start" /\ rlOnHwy \in SUBSET Ramps /\ rlTouch \in SUBSET TouchPairs
  /\ rlCur = {} /\ rlA = 0 /\ rlB = 0

\* lines 33 to 39
RL_SelectRampsOnHwy ==
  /\ rlStep = "start"
  /\ rlCur' = rlOnHwy
  /\ rlA' = 0 /\ rlB' = 1
  /\ rlStep' = "cur"
  /\ UNCHANGED <<rlOnHwy, rlTouch>>
  /\ UNCHANGED rlOthers

\* a turn of the loop with NEW_SELECTION for ADD_TO_SELECTION
RL_AddTouchingRamps_new ==
  /\ rlStep = "cur" /\ rlA # rlB
  /\ rlA' = Cardinality(rlCur)
  /\ rlCur' = Touching(rlTouch, rlCur)
  /\ rlB' = Cardinality(rlCur')
  /\ UNCHANGED <<rlStep, rlOnHwy, rlTouch>>
  /\ UNCHANGED rlOthers

\* lines 40 to 45: a turn of "while a != b"
RL_AddTouchingRamps ==
  /\ rlStep = "cur" /\ rlA # rlB
  /\ rlA' = Cardinality(rlCur)
  /\ rlCur' = AddTouching(rlTouch, rlCur)
  /\ rlB' = Cardinality(rlCur')
  /\ UNCHANGED <<rlStep, rlOnHwy, rlTouch>>
  /\ UNCHANGED rlOthers

\* a = b: the loop is left and line 48 takes the end points of cur
RL_RampEnds ==
  /\ rlStep = "cur" /\ rlA = rlB
  /\ rlStep' = "rmpt1"
  /\ UNCHANGED <<rlOnHwy, rlTouch, rlCur, rlA, rlB>>
  /\ UNCHANGED rlOthers

(***************************************************************************)
(* Road surfaces (ProcRoads.py): the flag of PrepRoadsVA_su, the manual    *)
(* review of the flagged records, and calculateBuffer of AssignBuffer_su.  *)
(***************************************************************************)
\* calcFlagFld(!VDOT_SURFACE_WIDTH_MSR!, !MTFCC!, !VDOT_RTE_TYPE_CD!)
calcFlagFld(width, mtfcc, routeType) ==
  IF IsNone(width) \/ Val(width) = 0 THEN -1
  ELSE IF Val(width) < 24 /\ (mtfcc \in {"S1100", "S1100HOV"} \/ routeType = "IS") THEN -1
  ELSE IF Val(width) < 22 /\ (mtfcc = "S1200PRI" \/ routeType \in {"SR", "US"}) THEN -1
  ELSE IF Val(width) < 20 /\ mtfcc = "S1200LOC" THEN -1
  ELSE IF Val(width) < 18 THEN -1
  ELSE 0

\* "if speed == None or speed == 0: speed = 25"
bufSpeed(speed) == IF IsNone(speed) \/ Val(speed) = 0 THEN 25 ELSE Val(speed)

trafficVol(vehicles) ==
  IF IsNone(vehicles) \/ Val(vehicles) = 0 THEN 1
  ELSE IF Val(vehicles) < 400 THEN 1
  ELSE IF Val(vehicles) < 1500 THEN 2
  ELSE IF Val(vehicles) < 2000 THEN 3
  ELSE 4

\* the branch of the road class
bufClass(mtfcc, routeType) ==
  IF mtfcc \in {"S1100", "S1100HOV"} \/ routeType = "IS" THEN "Freeways"
  ELSE IF mtfcc = "S1200PRI" \/ routeType \in {"SR", "US"} THEN "Arterials"
  ELSE IF mtfcc = "S1200LOC" THEN "Collectors"
  ELSE "Local roads"

\* the laneWidth assigned under "if flag == -1"
laneWidthByClass(class, speed, vol) ==
  IF class = "Freeways" THEN 24
  ELSE IF class = "Arterials" THEN
       (IF speed <= 45 THEN (IF vol <= 3 THEN 22 ELSE 24)
        ELSE IF speed <= 55 THEN (IF vol <= 2 THEN 22 ELSE 24)
        ELSE 24)
  ELSE IF class = "Collectors" THEN
       (IF speed <= 30 THEN (IF vol <= 2 THEN 20 ELSE IF vol <= 3 THEN 22 ELSE 24)
        ELSE IF speed <= 50 THEN (IF vol <= 1 THEN 20 ELSE IF vol <= 3 THEN 22 ELSE 24)
        ELSE (IF vol <= 2 THEN 22 ELSE 24))
  ELSE (IF speed <= 15 THEN (IF vol = 1 THEN 18 ELSE IF vol <= 3 THEN 20 ELSE 22)
        ELSE IF speed <= 40 THEN
             (IF vol = 1 THEN 18 ELSE IF vol = 2 THEN 20 ELSE IF vol = 3 THEN 22 ELSE 24)
        ELSE IF speed <= 50 THEN (IF vol = 1 THEN 20 ELSE IF vol <= 3 THEN 22 ELSE 24)
        ELSE (IF vol <= 2 THEN 22 ELSE 24))

shoulderWidth(class, vol) ==
  IF class = "Freeways" THEN 24
  ELSE IF class = "Arterials" THEN (IF vol = 1 THEN 8 ELSE IF vol <= 3 THEN 12 ELSE 16)
  ELSE (IF vol = 1 THEN 4 ELSE IF vol = 2 THEN 10 ELSE IF vol = 3 THEN 12 ELSE 16)

\* laneWidth: surfwidth under "if flag == 0", the class width under
\* "if flag == -1", and not assigned under any other flag
laneWidthAssigned(flag) == flag \in {Some(0), Some(-1)}
laneWidth(flag, surfwidth, speed, vehicles, mtfcc, routeType) ==
  IF flag = Some(-1)
  THEN Some(laneWidthByClass(bufClass(mtfcc, routeType), bufSpeed(speed), trafficVol(vehicles)))
  ELSE surfwidth

\* "roadWidth_FT = laneWidth + shoulderWidth" raises UnboundLocalError when
\* laneWidth is not assigned and TypeError when it is None
calculateBufferRaises(flag, override, surfwidth) ==
  IsNone(override) /\ (~laneWidthAssigned(flag) \/ (flag = Some(0) /\ IsNone(surfwidth)))

\* convFactor = 0.1524 = 381/2500
calculateBuffer(flag, override, surfwidth, speed, vehicles, mtfcc, routeType) ==
  IF IsNone(override)
  THEN Frac((Val(laneWidth(flag, surfwidth, speed, vehicles, mtfcc, routeType))
             + shoulderWidth(bufClass(mtfcc, routeType), trafficVol(vehicles))) * 381, 2500)
  ELSE Frac(Val(override) * 381 * 2, 2500)

SU_WIDTH == {None, Some(0), Some(17), Some(21), Some(23), Some(30)}
SU_SPEED == {None, Some(15), Some(30), Some(45), Some(55), Some(60)}
SU_AADT == {None, Some(300), Some(1000), Some(1800), Some(3000)}
SU_MTFCC == {"S1100", "S1200PRI", "S1200LOC", "S1400"}
SU_RTE == {"IS", "SR", NullStr}
SU_BUFF_FT == {Some(30)}

SURawRecord == [VDOT_SURFACE_WIDTH_MSR : SU_WIDTH, LOCAL_SPEED_MPH : SU_SPEED,
                VDOT_TRAFFIC_AADT_NBR : SU_AADT, MTFCC : SU_MTFCC, VDOT_RTE_TYPE_CD : SU_RTE]
SUOtherRecord == [VDOT_SURFACE_WIDTH_MSR : {Some(30)}, LOCAL_SPEED_MPH : {Some(30)},
                  VDOT_TRAFFIC_AADT_NBR : {Some(300)}, MTFCC : {"S1400"},
                  VDOT_RTE_TYPE_CD : {NullStr}]

\* a record of outRCL after the fields were added: they are null
SURecord(raw) ==
  [VDOT_SURFACE_WIDTH_MSR |-> raw.VDOT_SURFACE_WIDTH_MSR,
   LOCAL_SPEED_MPH |-> raw.LOCAL_SPEED_MPH,
   VDOT_TRAFFIC_AADT_NBR |-> raw.VDOT_TRAFFIC_AADT_NBR,
   MTFCC |-> raw.MTFCC, VDOT_RTE_TYPE_CD |-> raw.VDOT_RTE_TYPE_CD,
   NH_SURFWIDTH_FLAG |-> None, NH_BUFF_FT |-> None, NH_BUFF_M |-> None]

SUIdle == suStep = "idle" /\ suRCL = <<>>

SUInit ==
  /\ suStep = "fields added"
  /\ \E t \in Tables(SURawRecord, SUOtherRecord, MaxSu) :
        suRCL = [i \in DOMAIN t |-> SURecord(t[i])]

\* PrepRoadsVA_su: "Calculate flag field"
SU_calcFlagFld ==
  /\ suStep = "fields added"
  /\ suRCL' = [i \in DOMAIN suRCL |->
        [suRCL[i] EXCEPT !.NH_SURFWIDTH_FLAG =
           Some(calcFlagFld(suRCL[i].VDOT_SURFACE_WIDTH_MSR, suRCL[i].MTFCC,
                            suRCL[i].VDOT_RTE_TYPE_CD))]]
  /\ suStep' = "flagged"
  /\ UNCHANGED suOthers

\* between the two functions a flagged record is reviewed by hand: the flag
\* is set to 1 (reviewed and amended) or, where there is a surface width, to
\* 0 (OK), and a buffer width in feet may be entered
SU_Review ==
  /\ suStep = "flagged"
  /\ \E i \in DOMAIN suRCL :
       /\ suRCL[i].NH_SURFWIDTH_FLAG = Some(-1)
       /\ \E flag \in {Some(0), Some(1)}, ft \in {None} \cup SU_BUFF_FT :
            /\ flag = Some(0) => ~IsNone(suRCL[i].VDOT_SURFACE_WIDTH_MSR)
            /\ suRCL' = [suRCL EXCEPT ![i].NH_SURFWIDTH_FLAG = flag, ![i].NH_BUFF_FT = ft]
  /\ suStep' = "reviewed"
  /\ UNCHANGED suOthers

\* AssignBuffer_su: CalculateField_management runs calculateBuffer row by row
\* and fails at the first row for which it raises
SU_AssignBuffer ==
  /\ suStep \in {"flagged", "reviewed"}
  /\ LET bad == {i \in DOMAIN suRCL :
                   calculateBufferRaises(suRCL[i].NH_SURFWIDTH_FLAG, suRCL[i].NH_BUFF_FT,
                                         suRCL[i].VDOT_SURFACE_WIDTH_MSR)}
         upto == IF bad = {} THEN Len(suRCL) ELSE MinCell(bad) - 1
     IN  /\ suRCL' = [i \in DOMAIN suRCL |->
               IF i <= upto
               THEN [suRCL[i] EXCEPT !.NH_BUFF_M =
                       calculateBuffer(suRCL[i].NH_SURFWIDTH_FLAG, suRCL[i].NH_BUFF_FT,
                                       suRCL[i].VDOT_SURFACE_WIDTH_MSR,
                                       suRCL[i].LOCAL_SPEED_MPH,
                                       suRCL[i].VDOT_TRAFFIC_AADT_NBR, suRCL[i].MTFCC,
                                       suRCL[i].VDOT_RTE_TYPE_CD)]
               ELSE suRCL[i]]
         /\ suStep' = IF bad = {} THEN "done" ELSE "ExecuteError"
  /\ UNCHANGED suOthers

(***************************************************************************)
(* The specifications: a behaviour of Spec is a call of one of the three   *)
(* attribution functions, a behaviour of SpecDedup a call of               *)
(* RemoveDupRoads, a behaviour of SpecRamp a call of RampPts or a run of   *)
(* MakeRampPoints.py, a behaviour of SpecNet a call of one of the two      *)
(* functions that make a network dataset.                                  *)
(***************************************************************************)
Init ==
  \/ VAInit /\ TGIdle /\ OSIdle /\ DDIdle /\ RPIdle /\ MRIdle /\ NTIdle /\ ONIdle /\ CSIdle /\ DLIdle /\ EXIdle /\ SAIdle /\ RRIdle /\ FDIdle /\ RLIdle /\ SUIdle
  \/ VAIdle /\ TGInit /\ OSIdle /\ DDIdle /\ RPIdle /\ MRIdle /\ NTIdle /\ ONIdle /\ CSIdle /\ DLIdle /\ EXIdle /\ SAIdle /\ RRIdle /\ FDIdle /\ RLIdle /\ SUIdle
  \/ VAIdle /\ TGIdle /\ OSInit /\ DDIdle /\ RPIdle /\ MRIdle /\ NTIdle /\ ONIdle /\ CSIdle /\ DLIdle /\ EXIdle /\ SAIdle /\ RRIdle /\ FDIdle /\ RLIdle /\ SUIdle

Next == VANext \/ TGNext \/ OSNext

Spec == Init /\ [][Next]_vars

InitDedup == VAIdle /\ TGIdle /\ OSIdle /\ DDInit /\ RPIdle /\ MRIdle /\ NTIdle /\ ONIdle /\ CSIdle /\ DLIdle /\ EXIdle /\ SAIdle /\ RRIdle /\ FDIdle /\ RLIdle /\ SUIdle

NextDedup ==
  \/ DD_CountOverlappingFeatures
  \/ DD_ExecuteError
  \/ DD_SpatialJoin
  \/ DD_Sort
  \/ DD_DeleteIdentical
  \/ DD_Return

SpecDedup == InitDedup /\ [][NextDedup]_vars

InitRamp ==
  \/ VAIdle /\ TGIdle /\ OSIdle /\ DDIdle /\ RPInit /\ MRIdle /\ NTIdle /\ ONIdle /\ CSIdle /\ DLIdle /\ EXIdle /\ SAIdle /\ RRIdle /\ FDIdle /\ RLIdle /\ SUIdle
  \/ VAIdle /\ TGIdle /\ OSIdle /\ DDIdle /\ RPIdle /\ MRInit /\ NTIdle /\ ONIdle /\ CSIdle /\ DLIdle /\ EXIdle /\ SAIdle /\ RRIdle /\ FDIdle /\ RLIdle /\ SUIdle

NextRamp ==
  \/ RP_RampEnds
  \/ RP_RampHwy
  \/ RP_Dissolve
  \/ RP_HwyEndRamp
  \/ RP_RampLocal
  \/ RP_HwyEndLocal
  \/ RP_DeleteIdentical
  \/ MR_SelectRampsOnHwy
  \/ MR_AddTouchingRamps
  \/ MR_RampLocal
  \/ MR_HwyEnd
  \/ MR_TigerFix
  \/ MR_Merge
  \/ MR_DeleteIdentical

SpecRamp == InitRamp /\ [][NextRamp]_vars

InitNet ==
  \/ VAIdle /\ TGIdle /\ OSIdle /\ DDIdle /\ RPIdle /\ MRIdle /\ NTInit /\ ONIdle /\ CSIdle /\ DLIdle /\ EXIdle /\ SAIdle /\ RRIdle /\ FDIdle /\ RLIdle /\ SUIdle
  \/ VAIdle /\ TGIdle /\ OSIdle /\ DDIdle /\ RPIdle /\ MRIdle /\ NTIdle /\ ONInit /\ CSIdle /\ DLIdle /\ EXIdle /\ SAIdle /\ RRIdle /\ FDIdle /\ RLIdle /\ SUIdle

NextNet ==
  \/ NT_RemoveDupRoads
  \/ NT_ExecuteError
  \/ NT_RampPts
  \/ NT_Roads
  \/ NT_Junctions
  \/ ON_RampPoints
  \/ ON_RoadsHwy
  \/ ON_RoadsLocal

SpecNet == InitNet /\ [][NextNet]_vars

InitCost ==
  VAIdle /\ TGIdle /\ OSIdle /\ DDIdle /\ RPIdle /\ MRIdle /\ NTIdle /\ ONIdle /\ CSInit /\ DLIdle /\ EXIdle /\ SAIdle /\ RRIdle /\ FDIdle /\ RLIdle /\ SUIdle

NextCost ==
  \/ CS_PolylineToRaster
  \/ CS_CopyRaster
  \/ CS_Con
  \/ CS_Delete

SpecCost == InitCost /\ [][NextCost]_vars

InitBatch ==
  \/ VAIdle /\ TGIdle /\ OSIdle /\ DDIdle /\ RPIdle /\ MRIdle /\ NTIdle /\ ONIdle /\ CSIdle /\ DLInit /\ EXIdle /\ SAIdle /\ RRIdle /\ FDIdle /\ RLIdle /\ SUIdle
  \/ VAIdle /\ TGIdle /\ OSIdle /\ DDIdle /\ RPIdle /\ MRIdle /\ NTIdle /\ ONIdle /\ CSIdle /\ DLIdle /\ EXInit /\ SAIdle /\ RRIdle /\ FDIdle /\ RLIdle /\ SUIdle
  \/ VAIdle /\ TGIdle /\ OSIdle /\ DDIdle /\ RPIdle /\ MRIdle /\ NTIdle /\ ONIdle /\ CSIdle /\ DLIdle /\ EXIdle /\ SAInit /\ RRIdle /\ FDIdle /\ RLIdle /\ SUIdle
  \/ VAIdle /\ TGIdle /\ OSIdle /\ DDIdle /\ RPIdle /\ MRIdle /\ NTIdle /\ ONIdle /\ CSIdle /\ DLIdle /\ EXIdle /\ SAIdle /\ RRInit /\ FDIdle /\ RLIdle /\ SUIdle

NextBatch ==
  \/ DL_Parse
  \/ DL_Connect
  \/ DL_Login
  \/ DL_Cwd
  \/ DL_Download
  \/ DL_CloseLog
  \/ DL_Extract
  \/ DL_Return
  \/ EX_OpenLog
  \/ EX_ListDir
  \/ EX_Extract
  \/ EX_CloseLog
  \/ SA_Setup
  \/ SA_Group
  \/ SA_Summary
  \/ RR_Setup
  \/ RR_Poly
  \/ RR_Summary

SpecBatch == InitBatch /\ [][NextBatch]_vars

InitDens ==
  VAIdle /\ TGIdle /\ OSIdle /\ DDIdle /\ RPIdle /\ MRIdle /\ NTIdle /\ ONIdle /\ CSIdle /\ DLIdle /\ EXIdle /\ SAIdle /\ RRIdle /\ FDInit /\ RLIdle /\ SUIdle

NextDens ==
  \/ FD_Select
  \/ FD_RemoveDupRoads
  \/ FD_ExecuteError

SpecDens == InitDens /\ [][NextDens]_vars

\* the script runs from its first line to its last: a step that can be taken
\* is taken
InitLoop ==
  VAIdle /\ TGIdle /\ OSIdle /\ DDIdle /\ RPIdle /\ MRIdle /\ NTIdle /\ ONIdle /\ CSIdle /\ DLIdle /\ EXIdle /\ SAIdle /\ RRIdle /\ FDIdle /\ RLInit /\ SUIdle

NextLoop ==
  \/ RL_SelectRampsOnHwy
  \/ RL_AddTouchingRamps
  \/ RL_RampEnds

SpecLoop == InitLoop /\ [][NextLoop]_vars /\ WF_vars(NextLoop)

InitSurf ==
  VAIdle /\ TGIdle /\ OSIdle /\ DDIdle /\ RPIdle /\ MRIdle /\ NTIdle /\ ONIdle /\ CSIdle /\ DLIdle /\ EXIdle /\ SAIdle /\ RRIdle /\ FDIdle /\ RLIdle /\ SUInit

NextSurf ==
  \/ SU_calcFlagFld
  \/ SU_Review
  \/ SU_AssignBuffer

SpecSurf == InitSurf /\ [][NextSurf]_vars

(***************************************************************************)
(* Where each function stands.                                             *)
(***************************************************************************)
vaSpeedSet == vaStep \in {"SPEED_upd", "TravTime", "RmpHwy", "UniqueID", "done"}
vaRoleSet == vaStep \in {"RmpHwy", "UniqueID", "done"}
tgSpeedSet == tgStep \in {"urbAdjust", "TravTime", "RmpHwy", "UniqueID", "done"}
tgRoleSet == tgStep \in {"RmpHwy", "UniqueID", "done"}
osSpeedSet == osStep \in {"SPEED_MPH", "done"}

\* the record lies in the urban areas PrepRoadsTIGER_tt was given
tgInUrb(r) == tgUrb # NoArea /\ r.geom \subseteq tgUrb

\* the speed mph assigns before its urban adjustment
mphBase(r) ==
  IF mphUsesMaxspeed(r.maxspeed, r.code) THEN mphFromMaxspeed(r.maxspeed)
  ELSE mphByCode(r.code)

\* the class codes each rule set names
VA_KNOWN == {"S1100", "S1100HOV", "S1200", "S1200LOC", "S1200PRI", "S1300", "S1640",
             "S1630", "C3061", "C3062", "S1400", "S1740", "S1500", "S1730", "S1780",
             "S1820"}
TG_KNOWN == {"S1100", "S1200", "S1640", "S1630", "C3061", "C3062", "S1400", "S1740",
             "S1500", "S1730", "S1780", "S1820"}
OSM_KNOWN == {5111, 5112, 5113, 5114, 5115, 5121, 5122, 5123, 5124, 5131, 5132,
              5133, 5134, 5135, 5141, 5142, 5143, 5144, 5145, 5146, 5147, 5151,
              5152, 5153, 5154, 5155, 5199}

(***************************************************************************)
(* C1: in every source, every record gets a role in {0, 1, 2} and a speed  *)
(* that is a number greater than 0.                                        *)
(***************************************************************************)
C1_RoleSpeedTotal ==
  /\ vaRoleSet => \A i \in DOMAIN vaRCL :
        /\ ~IsNone(vaRCL[i].RmpHwy) /\ Val(vaRCL[i].RmpHwy) \in {0, 1, 2}
        /\ ~IsNone(vaRCL[i].SPEED_upd) /\ Val(vaRCL[i].SPEED_upd) > 0
  /\ tgRoleSet => \A i \in DOMAIN tgRoads :
        /\ ~IsNone(tgRoads[i].RmpHwy) /\ Val(tgRoads[i].RmpHwy) \in {0, 1, 2}
        /\ ~IsNone(tgRoads[i].Speed_upd) /\ Val(tgRoads[i].Speed_upd) > 0
  /\ osSpeedSet => \A i \in DOMAIN osRoads :
        /\ ~IsNone(osRoads[i].RmpHwy) /\ Val(osRoads[i].RmpHwy) \in {0, 1, 2}
        /\ ~IsNone(osRoads[i].SPEED_MPH) /\ Val(osRoads[i].SPEED_MPH) > 0

(***************************************************************************)
(* C3: a record whose class code the source's rule set does not name, and  *)
(* whose posted speed is not used, has role 0 and speed 3.                 *)
(***************************************************************************)
C3_UnknownClassWalks ==
  /\ vaRoleSet => \A i \in DOMAIN vaRCL :
        (vaRCL[i].MTFCC \notin VA_KNOWN /\ Val(vaRCL[i].FlgFld) # 0)
           => (vaRCL[i].RmpHwy = Some(0) /\ vaRCL[i].SPEED_upd = Some(3))
  /\ tgRoleSet => \A i \in DOMAIN tgRoads :
        tgRoads[i].MTFCC \notin TG_KNOWN
           => (tgRoads[i].RmpHwy = Some(0) /\ tgRoads[i].Speed_upd = Some(3))
  /\ osSpeedSet => \A i \in DOMAIN osRoads :
        osRoads[i].code \notin OSM_KNOWN
           => (osRoads[i].RmpHwy = Some(0) /\ osRoads[i].SPEED_MPH = Some(3))

(***************************************************************************)
(* C4, as claimed: the posted speed LOCAL_SPEED_MPH is the segment speed   *)
(* (the record is flagged 0) exactly when it is not null, not zero, a      *)
(* multiple of 5 and SEGMENT_EXISTS is "Y".                                *)
(***************************************************************************)
vaPostedUsed(r) == r.FlgFld = Some(0) /\ r.SPEED_upd = r.LOCAL_SPEED_MPH
vaPostedPlausible(r) ==
  /\ ~IsNone(r.LOCAL_SPEED_MPH)
  /\ Val(r.LOCAL_SPEED_MPH) # 0
  /\ Val(r.LOCAL_SPEED_MPH) % 5 = 0

C4_PostedIffExistsYes ==
  vaSpeedSet => \A i \in DOMAIN vaRCL :
     vaPostedUsed(vaRCL[i])
        <=> (vaPostedPlausible(vaRCL[i]) /\ vaRCL[i].SEGMENT_EXISTS = "Y")

(***************************************************************************)
(* C4, amended: the posted speed is the segment speed exactly when it is   *)
(* not null, not zero, a multiple of 5 and SEGMENT_EXISTS is not "N" (a    *)
(* null flag counts as existing); otherwise the speed is 3 where           *)
(* SEGMENT_EXISTS is "N" and the speed of the MTFCC class elsewhere.       *)
(***************************************************************************)
C4_PostedIffNotN ==
  vaSpeedSet => \A i \in DOMAIN vaRCL :
     LET r == vaRCL[i]
         usable == vaPostedPlausible(r) /\ r.SEGMENT_EXISTS # "N"
     IN  /\ vaPostedUsed(r) <=> usable
         /\ ~usable =>
              /\ r.FlgFld \in {Some(1), Some(-1)}
              /\ r.SPEED_upd = IF r.SEGMENT_EXISTS = "N" THEN Some(3)
                               ELSE Some(SpdUpdByClass(r.MTFCC))

C4_Witness ==
  /\ vaStep = "done"
  /\ \E i \in DOMAIN vaRCL :
        /\ vaRCL[i].SEGMENT_EXISTS = NullStr
        /\ vaRCL[i].LOCAL_SPEED_MPH = Some(55)
        /\ vaRCL[i].MTFCC = "S1400"
        /\ vaRCL[i].SPEED_upd = Some(55)

(***************************************************************************)
(* C5: a segment with SEGMENT_EXISTS = "N" has speed 3, whatever its       *)
(* posted speed and its class.                                             *)
(***************************************************************************)
C5_NotExistingWalks ==
  vaSpeedSet => \A i \in DOMAIN vaRCL :
     vaRCL[i].SEGMENT_EXISTS = "N" => vaRCL[i].SPEED_upd = Some(3)

C5_Witness ==
  /\ vaStep = "done"
  /\ \E i \in DOMAIN vaRCL :
        /\ vaRCL[i].SEGMENT_EXISTS = "N"
        /\ vaRCL[i].LOCAL_SPEED_MPH = Some(55)
        /\ vaRCL[i].MTFCC = "S1100"
        /\ vaRCL[i].SPEED_upd = Some(3)

(***************************************************************************)
(* C2, as claimed: each normalization returns exactly one record for every *)
(* segment it was given.                                                   *)
(***************************************************************************)
tgCount(id) == Cardinality({j \in DOMAIN tgRoads : tgRoads[j].LINEARID = id})
osInputs == Range(osInFC) \cup UNION {Range(osAppendFC[k]) : k \in DOMAIN osAppendFC}

C2_OneToOne ==
  /\ vaStep = "done" =>
        /\ Len(vaRCL) = Len(vaIn)
        /\ \A i \in DOMAIN vaIn : vaRCL[i].RCL_ID = vaIn[i].RCL_ID
  /\ (tgStep = "done" /\ tgRun = 1) =>
        \A i \in DOMAIN tgIn : tgCount(tgIn[i].LINEARID) = 1
  /\ (osStep = "done" /\ osInFC # <<>>) =>
        Len(osRoads) = Len(osInFC) + Len(osAppendFC)

(***************************************************************************)
(* C2, amended: PrepRoadsVA_tt and attributeOSM keep exactly one record    *)
(* per record given, and so does PrepRoadsTIGER_tt without inBnd and       *)
(* urbAreas.  With inBnd it returns no record for a segment that lies      *)
(* outside the boundary; with urbAreas it returns two records for a        *)
(* segment that crosses the edge of the urban areas.  prepOSM returns one  *)
(* record per osm_id of the roads that reach into the boundary, and none   *)
(* for the others.                                                         *)
(***************************************************************************)
tgExpected(r) ==
  LET g == IF tgBnd = NoArea THEN r.geom ELSE r.geom \cap tgBnd
  IN  IF g = {} THEN 0
      ELSE IF tgUrb # NoArea /\ g \cap tgUrb # {} /\ g \ tgUrb # {} THEN 2
      ELSE 1

C2_CountsBySource ==
  /\ vaStep # "idle" =>
        /\ Len(vaRCL) = Len(vaIn)
        /\ \A i \in DOMAIN vaIn : vaRCL[i].RCL_ID = vaIn[i].RCL_ID
  /\ (tgSpeedSet /\ tgRun = 1) =>
        /\ \A i \in DOMAIN tgIn : tgCount(tgIn[i].LINEARID) = tgExpected(tgIn[i])
        /\ \A j \in DOMAIN tgRoads : \E i \in DOMAIN tgIn :
              tgRoads[j].LINEARID = tgIn[i].LINEARID
  /\ (osInFC # <<>> /\ osStep \in {"DeleteIdentical", "prepOSM", "RmpHwy",
                                   "SPEED_MPH", "done"}) =>
        /\ {osRoads[j].osm_id : j \in DOMAIN osRoads}
              = {r.osm_id : r \in {x \in osInputs : x.geom \cap osBoundary # {}}}
        /\ \A j, k \in DOMAIN osRoads :
              osRoads[j].osm_id = osRoads[k].osm_id => j = k
  /\ (osInFC = <<>> /\ osStep # "idle") =>
        \A j \in DOMAIN osRoads : osRoads[j].osm_id = j

C2_Witness ==
  /\ tgStep = "done" /\ tgRun = 1
  /\ Len(tgIn) = 1
  /\ Len(tgRoads) = 2
  /\ tgRoads[1].LINEARID = tgRoads[2].LINEARID

(***************************************************************************)
(* C6: the classes of each rule set, ranked Highway 6 > Arterial 5 >       *)
(* Ramp 4 > Residential 3 > Trail 2 > Path 1 (0: not ranked).              *)
(***************************************************************************)
MTFCC_Rank(m) ==
  IF m \in {"S1100", "S1100HOV"} THEN 6
  ELSE IF m \in {"S1200", "S1200LOC", "S1200PRI", "S1300", "S1640"} THEN 5
  ELSE IF m = "S1630" THEN 4
  ELSE IF m \in {"C3061", "C3062", "S1400", "S1740"} THEN 3
  ELSE IF m \in {"S1500", "S1730", "S1780"} THEN 2
  ELSE IF m = "S1820" THEN 1
  ELSE 0

\* motorway; trunk to tertiary; links; residential; tracks; bridle and cycle paths
OSM_Rank(code) ==
  IF code = 5111 THEN 6
  ELSE IF code \in {5112, 5113, 5114, 5115} THEN 5
  ELSE IF code \in {5131, 5132, 5133, 5134, 5135} THEN 4
  ELSE IF code \in {5121, 5122} THEN 3
  ELSE IF code \in {5142, 5143, 5144, 5145, 5146, 5147} THEN 2
  ELSE IF code \in {5151, 5152} THEN 1
  ELSE 0

\* the same without tertiary roads in urban areas and without the track
\* grades 1, 4 and 5
OSM_RankKept(code, ua) ==
  IF code = 5115 /\ ua = Some(1) THEN 0
  ELSE IF code \in {5143, 5146, 5147} THEN 0
  ELSE OSM_Rank(code)

vaOrdered ==
  vaSpeedSet => \A i \in DOMAIN vaRCL :
     vaRCL[i].FlgFld = Some(1) =>
        /\ vaRCL[i].MTFCC \in {"S1100", "S1100HOV"} => vaRCL[i].SPEED_upd = Some(55)
        /\ vaRCL[i].MTFCC = "S1630" => vaRCL[i].SPEED_upd = Some(30)
        /\ \A c \in VA_KNOWN :
              MTFCC_Rank(vaRCL[i].MTFCC) > MTFCC_Rank(c)
                 => Val(vaRCL[i].SPEED_upd) > SpdUpdByClass(c)

tgOrdered ==
  tgSpeedSet => \A i \in DOMAIN tgRoads : \A c \in TG_KNOWN :
     MTFCC_Rank(tgRoads[i].MTFCC) > MTFCC_Rank(c)
        => Val(tgRoads[i].Speed_upd) >
              (IF tgInUrb(tgRoads[i]) THEN Speed_urb(Speed(c, tgRoads[i].RTTYP))
               ELSE Speed(c, tgRoads[i].RTTYP))

C7_UrbanPenalty ==
  /\ tgSpeedSet => \A i \in DOMAIN tgRoads :
        LET base == Speed(tgRoads[i].MTFCC, tgRoads[i].RTTYP)
        IN  Val(tgRoads[i].Speed_upd) =
               IF tgInUrb(tgRoads[i]) /\ base > 30 THEN base - 10 ELSE base
  /\ osSpeedSet => \A i \in DOMAIN osRoads :
        LET base == mphBase(osRoads[i])
        IN  Val(osRoads[i].SPEED_MPH) =
               IF osRoads[i].UA = Some(1) /\ base > 30 THEN base - 10 ELSE base

(***************************************************************************)
(* C8, as claimed: applying the urban adjustment to an adjusted record     *)
(* once more leaves its speed as it is, and a second run of the            *)
(* normalization on its own output returns the speeds of the first.        *)
(***************************************************************************)
rerunSameSpeed ==
  /\ (tgRun = 2 /\ tgSpeedSet) =>
        /\ Len(tgRoads) = Len(tgFirst)
        /\ \A i \in DOMAIN tgRoads : tgRoads[i].Speed_upd = tgFirst[i].Speed_upd
  /\ (osRun = 2 /\ osSpeedSet) =>
        /\ Len(osRoads) = Len(osFirst)
        /\ \A i \in DOMAIN osRoads : osRoads[i].SPEED_MPH = osFirst[i].SPEED_MPH

C8_AdjustTwiceSame ==
  /\ tgSpeedSet => \A i \in DOMAIN tgRoads :
        tgInUrb(tgRoads[i])
           => Speed_urb(Val(tgRoads[i].Speed_upd)) = Val(tgRoads[i].Speed_upd)
  /\ osSpeedSet => \A i \in DOMAIN osRoads :
        mphUrban(Val(osRoads[i].SPEED_MPH), osRoads[i].UA) = Val(osRoads[i].SPEED_MPH)
  /\ rerunSameSpeed

(***************************************************************************)
(* C8, amended: a run derives the speed afresh from the class, the route   *)
(* type and maxspeed and subtracts the penalty at most once, so a second   *)
(* run of the normalization on its own output returns the speeds of the    *)
(* first.  (The adjustment by itself is not idempotent: 55 gives 45, and   *)
(* 45 gives 35.)                                                           *)
(***************************************************************************)
C8_RerunSameSpeed ==
  /\ rerunSameSpeed
  /\ tgSpeedSet => \A i \in DOMAIN tgRoads :
        LET base == Speed(tgRoads[i].MTFCC, tgRoads[i].RTTYP)
        IN  Val(tgRoads[i].Speed_upd) \in {base, base - 10}
  /\ osSpeedSet => \A i \in DOMAIN osRoads :
        Val(osRoads[i].SPEED_MPH) \in {mphBase(osRoads[i]), mphBase(osRoads[i]) - 10}

C8_Witness ==
  /\ tgRun = 2 /\ tgStep = "done"
  /\ \E i \in DOMAIN tgRoads :
        /\ tgInUrb(tgRoads[i])
        /\ tgRoads[i].MTFCC = "S1100" /\ tgRoads[i].RTTYP = "I"
        /\ tgRoads[i].Speed_upd = Some(60)
        /\ tgFirst[i].Speed_upd = Some(60)

(***************************************************************************)
(* C9, as claimed: in every source the stored travel time is 0.037 / speed *)
(* (travel time x 1000 x speed = 37), whatever the segment's length.       *)
(***************************************************************************)
Is0037Over(t, speed) == ~IsNone(t) /\ t[1] * 1000 * Val(speed) = 37 * t[2]

vaTravTimeSet == vaStep \in {"TravTime", "RmpHwy", "UniqueID", "done"}
tgTravTimeSet == tgStep \in {"TravTime", "RmpHwy", "UniqueID", "done"}

C9_TravTimeIs0037OverSpeed ==
  /\ vaTravTimeSet => \A i \in DOMAIN vaRCL :
        Is0037Over(vaRCL[i].TravTime, vaRCL[i].SPEED_upd)
  /\ tgTravTimeSet => \A i \in DOMAIN tgRoads :
        Is0037Over(tgRoads[i].TravTime, tgRoads[i].Speed_upd)
  /\ osStep = "done" => \A i \in DOMAIN osRoads :
        Is0037Over(osRoads[i].TT_MIN, osRoads[i].SPEED_MPH)

(***************************************************************************)
(* C9, amended: VA and TIGER store TravTime = 0.037 / Speed_upd, minutes   *)
(* per meter, whatever the length; OSM stores TT_MIN = 0.03728 x           *)
(* Shape_Length / SPEED_MPH, the minutes to travel the whole segment.      *)
(***************************************************************************)
C9_TravTimeBySource ==
  /\ vaTravTimeSet => \A i \in DOMAIN vaRCL :
        Is0037Over(vaRCL[i].TravTime, vaRCL[i].SPEED_upd)
  /\ tgTravTimeSet => \A i \in DOMAIN tgRoads :
        Is0037Over(tgRoads[i].TravTime, tgRoads[i].Speed_upd)
  /\ osStep = "done" => \A i \in DOMAIN osRoads :
        LET t == osRoads[i].TT_MIN
        IN  /\ ~IsNone(t)
            /\ t[1] * 6250 * Val(osRoads[i].SPEED_MPH)
                  = 233 * Shape_Length(osRoads[i].geom) * t[2]

C9_Witness ==
  /\ osStep = "done"
  /\ \E i \in DOMAIN osRoads :
        /\ Shape_Length(osRoads[i].geom) = 2
        /\ osRoads[i].SPEED_MPH = Some(55)
        /\ osRoads[i].TT_MIN = Frac(466, 343750)

(***************************************************************************)
(* C10: after RemoveDupRoads, at every location that input segments run    *)
(* over exactly one record is left, and it has the attributes of a         *)
(* segment that no other segment at the location precedes under sort_fld;  *)
(* under the default sort_fld, of two overlapping segments with speeds 55  *)
(* and 45 the one with 55 is left.                                         *)
(***************************************************************************)
ddDeduped == ddStep \in {"DeleteIdentical", "done"}

C10_OneSurvivorFirstUnderSort ==
  ddDeduped => \A c \in Cells :
     LET group == Cover(ddIn, c)
         left == {i \in DOMAIN ddOut : c \in ddOut[i].geom}
     IN  /\ group = {} => left = {}
         /\ group # {} =>
               /\ Cardinality(left) = 1
               /\ \A i \in left : \E j \in group :
                     /\ ddOut[i].LINEARID = ddIn[j].LINEARID
                     /\ ddOut[i].Speed_upd = ddIn[j].Speed_upd
                     /\ \A k \in group : ~Before(ddIn[k], ddIn[j], ddSortFld)
               /\ (/\ ddSortFld = << <<"Speed_upd", "DESCENDING">> >>
                   /\ \E j \in group : ddIn[j].Speed_upd = 55)
                     => \A i \in left : ddOut[i].Speed_upd = 55

C10_Witness ==
  /\ ddStep = "done"
  /\ ddSortFld = << <<"Speed_upd", "DESCENDING">> >>
  /\ Len(ddIn) = 2
  /\ ddIn[1].geom = Cells /\ ddIn[2].geom = Cells
  /\ ddIn[1].Speed_upd = 45 /\ ddIn[2].Speed_upd = 55
  /\ Len(ddOut) = 1
  /\ ddOut[1].Speed_upd = 55 /\ ddOut[1].LINEARID = ddIn[2].LINEARID

(***************************************************************************)
(* C11: when segments that overlap compare equal on every field of         *)
(* sort_fld, the record left at a location is the one of the segment with  *)
(* the smallest id, so that the ids left do not depend on the run or on    *)
(* the record order.                                                       *)
(***************************************************************************)
C11_TieKeepsSmallerId ==
  ddDeduped => \A c \in Cells : \A i \in DOMAIN ddOut :
     c \in ddOut[i].geom =>
        \A k \in Cover(ddIn, c) :
           (/\ ~Before(ddIn[k], ddOut[i], ddSortFld)
            /\ ~Before(ddOut[i], ddIn[k], ddSortFld))
              => ddOut[i].LINEARID <= ddIn[k].LINEARID

(***************************************************************************)
(* C12, as claimed: RemoveDupRoads never returns more records than it was  *)
(* given segments, and returns as many exactly when no two segments        *)
(* overlap, partial overlaps included.                                     *)
(***************************************************************************)
ddOverlap(i, j) == i # j /\ ddIn[i].geom \cap ddIn[j].geom # {}
ddNoOverlap == \A i, j \in DOMAIN ddIn : ~ddOverlap(i, j)

ddStretches == {Stretch(ddIn, c) : c \in {d \in Cells : Cover(ddIn, d) # {}}}
ddWholeOverlaps ==
  \A i, j \in DOMAIN ddIn : ddOverlap(i, j) => ddIn[i].geom = ddIn[j].geom

C13_DetectionFailurePassesThrough ==
  ddStep = "ExecuteError" =>
     \A i \in DOMAIN ddIn : \E j \in DOMAIN ddOut :
        /\ ddOut[j].LINEARID = ddIn[i].LINEARID
        /\ ddOut[j].Speed_upd = ddIn[i].Speed_upd
        /\ ddOut[j].geom = ddIn[i].geom

(***************************************************************************)
(* Junction points of RampPts: what lies at a point.                       *)
(***************************************************************************)
rpRampEndAt(p) == \E i \in DOMAIN rpRoads : IsRamp(rpRoads[i]) /\ p \in EndPts(rpRoads[i].geom)
rpOnRamp(p) == PtOnAny(p, Layer(rpRoads, IsRamp))
rpOnHwy(p) == PtOnAny(p, Layer(rpRoads, IsHighway))
rpOnLocal(p) == PtOnAny(p, Layer(rpRoads, IsLocal))
rpAt(p) == {i \in DOMAIN rpPts : rpPts[i].pt = p}

NoTwoAt(pts) == \A i, j \in DOMAIN pts : i # j => pts[i].pt # pts[j].pt

\* the first point of pts in the place p
FirstAt(pts, p) ==
  CHOOSE i \in DOMAIN pts : pts[i].pt = p /\ \A j \in 1..(i - 1) : pts[j].pt # p

\* the steps in which RampPts and MakeRampPoints.py delete identical points
rpDeduped == rpStep = "hwyEndLocal" /\ rpStep' = "done"
mrDeduped == mrStep = "merged" /\ mrStep' = "done"

\* RampPts leaves one point in each place of the four sets, with the junction
\* of the first set that holds the place
rpKeepsFirstCase ==
  /\ NoTwoAt(rpPts')
  /\ {rpPts'[i].pt : i \in DOMAIN rpPts'} = {rpPts[i].pt : i \in DOMAIN rpPts}
  /\ \A i \in DOMAIN rpPts' :
        rpPts'[i].junction = rpPts[FirstAt(rpPts, rpPts'[i].pt)].junction

\* C15 (as stated): in the final output of RampPts and of MakeRampPoints.py
\* no two points lie in the same place, and the point of a place has the
\* junction type of the first case that made a point there.
C15_NoTwoPointsShareLocation ==
  [][/\ rpDeduped => rpKeepsFirstCase
     /\ mrDeduped => NoTwoAt(mrFinal')]_vars

\* C15 (amended): RampPts leaves one point in each place, with the junction
\* of the first case; MakeRampPoints.py leaves one point for each UniqueID in
\* each place, so that points of different ramps or of different sets stay
\* in one place.
C15_OnePerLocationOrPerIdAndLocation ==
  [][/\ rpDeduped => rpKeepsFirstCase
     /\ mrDeduped =>
          /\ \A i, j \in DOMAIN mrFinal' :
                i # j => \/ mrFinal'[i].pt # mrFinal'[j].pt
                         \/ mrFinal'[i].UniqueID # mrFinal'[j].UniqueID
          /\ {mrFinal'[i] : i \in DOMAIN mrFinal'} = {mrFinal[i] : i \in DOMAIN mrFinal}]_vars

\* MakeRampPoints.py has deleted a point and has left two points in one place
C15_Witness ==
  /\ mrStep = "done"
  /\ Len(mrFinal) < Len(mrRmpt2) + Len(mrFix2) + Len(mrHwyEndpts)
  /\ ~NoTwoAt(mrFinal)

(***************************************************************************)
(* C16: the highway ends that turn into a local road.                      *)
(***************************************************************************)
\* p is an end of a dissolved line of hwy; p is a vertex of a dissolved line
\* that closes to a ring, where FeatureVerticesToPoints may put its point
Terminal(hwy, p) ==
  LET diss == Dissolve(hwy) IN \E k \in DOMAIN diss : p \in diss[k].ends
RingVertex(hwy, p) ==
  LET diss == Dissolve(hwy)
  IN  \E k \in DOMAIN diss : diss[k].ends = {} /\ p \in diss[k].verts

rpHwy == Layer(rpRoads, IsHighway)
rpJunctionAt(p, j) == \E i \in DOMAIN rpPts : rpPts[i].pt = p /\ rpPts[i].junction = j

\* a local road through p ends in an end of a dissolved highway and shares
\* no piece with that highway
rpOnEndingLocal(p) ==
  \E i \in DOMAIN rpRoads :
     /\ IsLocal(rpRoads[i]) /\ PtOnLine(p, rpRoads[i].geom)
     /\ LET diss == Dissolve(rpHwy)
        IN  \E k \in DOMAIN diss :
               /\ EndPts(rpRoads[i].geom) \cap diss[k].ends # {}
               /\ rpRoads[i].geom \cap diss[k].geom = {}

\* hwy_endpts has just been written; nothing writes it again
mrHwyEndSet == mrStep = "hwy_endpts"
mrHwyEndAt(p) == \E i \in DOMAIN mrHwyEndpts : mrHwyEndpts[i].pt = p

\* hwy_endpts of MakeRampPoints.py: the ends of the dissolved highways on a
\* local road and on no ramp, all of them
mrHwyEndsExact ==
  mrHwyEndSet =>
    /\ \A p \in Points : mrHwyEndAt(p) =>
          /\ Terminal(Hwy(mrLah), p) \/ RingVertex(Hwy(mrLah), p)
          /\ PtOnAny(p, Loc(mrLocal)) /\ ~PtOnAny(p, Rmp(mrLah))
    /\ \A p \in Points :
          (Terminal(Hwy(mrLah), p) /\ PtOnAny(p, Loc(mrLocal)) /\ ~PtOnAny(p, Rmp(mrLah)))
             => mrHwyEndAt(p)

rpHwyEndsOnRamp ==
  \A i \in DOMAIN rpTmp :
     /\ Terminal(rpHwy, rpTmp[i].pt) \/ RingVertex(rpHwy, rpTmp[i].pt)
     /\ rpOnRamp(rpTmp[i].pt)

\* C18 (as stated): an end of the dissolved highways is a point of case 2
\* only if it lies on a ramp, and the point has a junction type of its own,
\* none of the values of the cases 1, 3 and 4.
C18_HwyEndRampOwnType ==
  rpStep = "hwyEndRamp" =>
     /\ rpHwyEndsOnRamp
     /\ \A i \in DOMAIN rpTmp : rpTmp[i].junction \notin {1, 2, 3}

\* C18 (amended): an end of the dissolved highways is a point of case 2 only
\* if it lies on a ramp, and the point has junction = 1, the value of case 1;
\* junction takes the three values 1, 2 and 3.
C18_HwyEndRampJunctionOne ==
  /\ rpStep = "hwyEndRamp" =>
        /\ rpHwyEndsOnRamp
        /\ \A i \in DOMAIN rpTmp : rpTmp[i].junction = 1
  /\ \A i \in DOMAIN rpPts : rpPts[i].junction \in {1, 2, 3}

\* the output holds, with junction = 1, an end of a highway on a ramp that
\* is no end of a ramp, and a point of each of the other two values
C18_Witness ==
  /\ rpStep = "done"
  /\ \E p \in Points :
        /\ Terminal(rpHwy, p) /\ rpOnRamp(p) /\ ~rpRampEndAt(p)
        /\ rpJunctionAt(p, 1)
  /\ \E p \in Points : rpJunctionAt(p, 2)

(***************************************************************************)
(* C19: what MakeNetworkDataset_tt hands to RampPts.                       *)
(***************************************************************************)
\* the feature dataset holds the roads of rd_nodup and the points of rmp_pts
ntFdFromNodup ==
  /\ ntFd.roads_limitedAccess = Layer(ntNodup, IsHighway)
  /\ ntFd.roads_ramps = Layer(ntNodup, IsRamp)
  /\ ntFd.roads_local = Layer(ntNodup, IsLocal)
  /\ Range(ntFd.ramps_limitedAccess) \cup Range(ntFd.ramps_local)
        \cup Range(ntFd.limitedAccess_local) = Range(ntPts)

\* the points are those RampPts makes of roads
ntPtsOf(roads) == \E pts \in RampPtsOf(roads) : Range(ntPts) = Range(pts)

\* C19 (as stated): MakeNetworkDataset_tt removes the duplicate roads first
\* and makes the junction points of the roads without duplicates, which are
\* the roads of the network layers.
C19_JunctionsFromNodup ==
  ntStep = "done" => ntFdFromNodup /\ ntPtsOf(ntNodup)

\* C19 (amended): MakeNetworkDataset_tt removes the duplicate roads first and
\* loads the roads without duplicates into the network layers, but makes the
\* junction points of the input roads as they were before the removal.
C19_JunctionsFromInRoads ==
  /\ ntStep \in {"rmp_pts", "roads", "done"} => ntPtsOf(ntIn)
  /\ ntStep = "done" => ntFdFromNodup

\* a road that overlaps another has been cut, and the points differ from
\* those of the roads without duplicates
C19_Witness ==
  /\ ntStep = "done"
  /\ \E i \in DOMAIN ntNodup : \A j \in DOMAIN ntIn : ntNodup[i].geom # ntIn[j].geom
  /\ ntPts # <<>>
  /\ ~ntPtsOf(ntNodup)

(***************************************************************************)
(* C20: the split of the roads into the layers of the network.             *)
(***************************************************************************)
\* how many of the feature classes fcs hold the row with the key fld = v
InLayers(fcs, fld, v) ==
  Cardinality({k \in DOMAIN fcs : \E i \in DOMAIN fcs[k] : fcs[k][i][fld] = v})
InLayer(fc, fld, v) == \E i \in DOMAIN fc : fc[i][fld] = v

\* C20: in MakeNetworkDataset_tt, in makeNetworkDataset and in RampPts every
\* road is in one layer, it is in a layer of highways or ramps if and only if
\* its RmpHwy is 2 or 1, and no road with RmpHwy = 2 is in the local layer.
C20_SplitByRole ==
  /\ ntStep = "done" => \A i \in DOMAIN ntNodup :
        /\ InLayers(<<ntFd.roads_limitedAccess, ntFd.roads_ramps, ntFd.roads_local>>,
                    "TARGET_FID", ntNodup[i].TARGET_FID) = 1
        /\ (\/ InLayer(ntFd.roads_limitedAccess, "TARGET_FID", ntNodup[i].TARGET_FID)
            \/ InLayer(ntFd.roads_ramps, "TARGET_FID", ntNodup[i].TARGET_FID))
              <=> ntNodup[i].RmpHwy \in {1, 2}
        /\ ntNodup[i].RmpHwy = 2 =>
              ~InLayer(ntFd.roads_local, "TARGET_FID", ntNodup[i].TARGET_FID)
  /\ ntStep \in {"rmp_pts", "roads", "done"} => \A i \in DOMAIN ntIn :
        /\ Cardinality({w \in {"highway", "ramp", "local"} :
                           \/ w = "highway" /\ IsHighway(ntIn[i])
                           \/ w = "ramp" /\ IsRamp(ntIn[i])
                           \/ w = "local" /\ IsLocal(ntIn[i])}) = 1
        /\ (IsHighway(ntIn[i]) \/ IsRamp(ntIn[i])) <=> ntIn[i].RmpHwy \in {1, 2}
        /\ ntIn[i].RmpHwy = 2 => ~IsLocal(ntIn[i])
  /\ onStep = "done" => \A i \in DOMAIN onIn :
        /\ InLayers(<<onFd.Roads_Hwy, onFd.Roads_Local>>, "osm_id", onIn[i].osm_id) = 1
        /\ InLayer(onFd.Roads_Hwy, "osm_id", onIn[i].osm_id) <=> onIn[i].RmpHwy \in {1, 2}
        /\ onIn[i].RmpHwy = 2 => ~InLayer(onFd.Roads_Local, "osm_id", onIn[i].osm_id)

(***************************************************************************)
(* CostSurfTravTime: which road gives a cell its value.                    *)
(***************************************************************************)
csRasterized == csStep = "tmpRast"

\* the rows crossing cell c that no row crossing it exceeds in the field f
csTop(c, f) ==
  {i \in Cover(csRoads, c) : \A j \in Cover(csRoads, c) : csRoads[j][f] <= csRoads[i][f]}

\* C21 as stated: where roads compete for a cell of tmpRast, the cell holds
\* the travel time of a road of the highest role crossing it (Highway 2 over
\* Ramp 1 over Local 0), whatever the speeds.
C21_CellOfHighestRole ==
  csRasterized =>
    \A c \in Cells : Cover(csRoads, c) # {} =>
      \E i \in csTop(c, "RmpHwy") : FracEq(csTmp[c], csRoads[i].TravTime)

\* C21 amended: where roads compete for a cell of tmpRast, the cell holds the
\* travel time of a road of the largest Speed_upd crossing it, and among
\* those of one that is longest inside the cell; the role plays no part.
C21_CellOfHighestSpeed ==
  csRasterized =>
    \A c \in Cells : Cover(csRoads, c) # {} =>
      \E i \in MaximumLength(csRoads, csTop(c, "Speed_upd")) : csTmp[c] = csRoads[i].TravTime

\* a ramp and a faster local road cross one cell, and the cell holds the
\* travel time of the local road
C21_Witness ==
  /\ csRasterized
  /\ \E c \in Cells : \E i, j \in Cover(csRoads, c) :
       /\ csRoads[i].RmpHwy = 1 /\ csRoads[j].RmpHwy = 0
       /\ csRoads[j].Speed_upd > csRoads[i].Speed_upd
       /\ csTmp[c] = csRoads[j].TravTime

(***************************************************************************)
(* The batch loops.                                                        *)
(***************************************************************************)
\* the downloads attempted, in order: positions of FileList
Retr == SelectSeq(dlTrace, LAMBDA e : e.ev = "RETR")
dlLoopOver == dlStep \in {"logged", "extracting", "done"}
exLoopOver == exStep = "done" /\ exI > 0
\* the positions of zfiles that hold a zip file
exZips == {k \in DOMAIN zfiles : exDir[zfiles[k]] = "zip"}
Has(msgs, m) == \E i \in DOMAIN msgs : msgs[i] = m

\* C22: in each batch loop the items worked on so far are the first items of
\* the list, each once and in list order, whichever of them failed; when the
\* loop is over every item of the list was worked on; and every failure left
\* its message.
C22_EveryItemOnceInOrder ==
  /\ \A i \in DOMAIN Retr : Retr[i].k = i
  /\ dlStep = "downloading" => Len(Retr) = dlI - 1
  /\ dlLoopOver => Len(Retr) = Len(FileList)
  /\ \A k \in dlFailed : ProcList[k] = <<"Failed to download", FileList[k]>>
  /\ exStep = "extracting" => exTried = SelectSeq(Sorted(exZips), LAMBDA k : k < exI)
  /\ exLoopOver => exTried = Sorted(exZips)
  /\ \A k \in exFailed : Has(exLog, <<"Warning: Failed to extract", zfiles[k]>>)
  /\ saStep = "loop" => saTried = SubSeq(id_List, 1, saMyIndex - 1)
  /\ saStep = "done" => saTried = id_List
  /\ \A k \in saFailed : Has(saMsgs, <<"Failed for", <<id_List[k]>>>>)
  /\ rrStep = "loop" => rrTried = SubSeq(inPolys, 1, rrMyIndex - 1)
  /\ rrStep = "done" => rrTried = inPolys
  /\ \A k \in rrFailed : Has(rrMsgs, <<"Processing for polygon failed", <<k>>>>)

\* the first download failed and the second file was downloaded after it
C22_Witness ==
  /\ dlLoopOver /\ Len(FileList) = 2
  /\ dlFailed = {1}
  /\ ProcList[2] = <<"Successfully downloaded", FileList[2]>>

\* C23: at the end of a run the final summary names exactly the items whose
\* processing raised: myFailList of RecServiceAreas and of RecRastFromPolys
\* and the "Failed to download" lines of ProcList, written to README.txt.
C23_SummaryNamesTheFailed ==
  /\ saStep = "done" =>
       /\ saMyFailList = [i \in 1..Cardinality(saFailed) |-> id_List[Sorted(saFailed)[i]]]
       /\ saFailed # {} => Has(saMsgs, <<"Process complete, but the following failed", saMyFailList>>)
  /\ rrStep = "done" =>
       /\ Len(rrMyFailList) = Cardinality(rrFailed)
       /\ rrFailed # {} => Has(rrMsgs, <<"Process complete, but the following failed", rrMyFailList>>)
  /\ dlLoopOver =>
       \A k \in DOMAIN FileList :
         /\ k \in dlFailed <=> ProcList[k] = <<"Failed to download", FileList[k]>>
         /\ Has(dlLog, ProcList[k])

\* C29: a download is attempted only after the table was parsed, the
\* connection opened, the login and the directory change made, in that order
\* and all with success; after a failure of one of the four nothing more is
\* called; the extraction is called only after every download was attempted
\* and the log closed.
C29_DownloadOnlyAfterSetup ==
  /\ \A i \in Events(dlTrace, "RETR") :
       SubSeq(dlTrace, 1, 4) = <<Event("parse", 1), Event("connect", 1),
                                 Event("login", 1), Event("cwd", 1)>>
  /\ \A i \in DOMAIN dlTrace :
       dlTrace[i].ev \in {"parse", "connect", "login", "cwd"} /\ dlTrace[i].k = 0
         => /\ i = Len(dlTrace)
            /\ dlStep \in {"exit", "raised"}
            /\ exStep = "idle"
  /\ \A i \in Events(dlTrace, "extract") :
       /\ Len(Retr) = Len(FileList)
       /\ dlTrace[i - 1] = Event("close", 0)
       /\ \A j \in Events(dlTrace, "RETR") : j < i - 1
  /\ exStep # "idle" /\ dlStep # "idle" => Events(dlTrace, "extract") # {}

\* both files were downloaded and the extraction called
C29_Witness ==
  /\ dlStep = "extracting" /\ Len(Retr) = 2
  /\ Events(dlTrace, "extract") # {}

(***************************************************************************)
(* The rule functions on null and unknown values.                          *)
(***************************************************************************)
\* C24: no attribute value of a record makes a rule function raise: Flg,
\* SpdUpd, Speed, RmpHwy and rmpHwy are total, and the cursor loops of
\* attributeOSM calling mph and tt run to the last row, also for a row whose
\* maxspeed is null.
C24_RuleFunctionsNeverRaise ==
  /\ osStep # "TypeError"
  /\ osStep = "RmpHwy" =>
       \A i \in DOMAIN osRoads :
         ~mphRaises(osRoads[i].maxspeed, osRoads[i].code, osRoads[i].UA)

(***************************************************************************)
(* MakeRampPoints.py: how the points of the TIGER/Line fix are told apart. *)
(***************************************************************************)
mrMerged == mrStep \in {"merged", "done"}
fromFix(r) == r \in Range(mrFix2)
fixMark(r) == r.UniqueID[1] = "NONVAFIX"

\* C25 as stated: every point of the TIGER/Line fix in the final output has
\* the field needsReview set, and no point of rmpt2 or hwy_endpts has.
C25_FixPointsNeedReview ==
  mrMerged =>
    \A j \in DOMAIN mrFinal :
      IF fromFix(mrFinal[j])
      THEN "needsReview" \in DOMAIN mrFinal[j] /\ mrFinal[j].needsReview
      ELSE "needsReview" \in DOMAIN mrFinal[j] => ~mrFinal[j].needsReview

\* C25 amended: the final output has no field needsReview; every point of
\* the TIGER/Line fix is in it with a UniqueID that starts with NONVAFIX, and
\* no point of rmpt2 or hwy_endpts has such a UniqueID.
C25_FixPointsMarkedByUniqueID ==
  mrMerged =>
    /\ \A i \in DOMAIN mrFix2 : fixMark(mrFix2[i]) /\ mrFix2[i] \in Range(mrFinal)
    /\ \A r \in Range(mrRmpt2) \cup Range(mrHwyEndpts) : ~fixMark(r)
    /\ \A j \in DOMAIN mrFinal :
         /\ fixMark(mrFinal[j]) => fromFix(mrFinal[j])
         /\ "needsReview" \notin DOMAIN mrFinal[j]

\* the final output holds a point of the fix beside a ramp end point
C25_Witness ==
  /\ mrStep = "done"
  /\ \E i, j \in DOMAIN mrFinal :
       fromFix(mrFinal[i]) /\ mrFinal[j] \in Range(mrRmpt2)

(***************************************************************************)
(* PrepRoadsVA_tt: what it leaves alone.                                   *)
(***************************************************************************)
\* C26: at every step of PrepRoadsVA_tt inRCL holds the records it was
\* handed, in their order, with LOCAL_SPEED_MPH, MTFCC, SEGMENT_EXISTS and
\* RCL_ID as they were; the driving-only subset goes to outSubset.
C26_OnlyAddsFields ==
  /\ Len(vaRCL) = Len(vaIn)
  /\ \A i \in DOMAIN vaRCL :
       /\ vaRCL[i].LOCAL_SPEED_MPH = vaIn[i].LOCAL_SPEED_MPH
       /\ vaRCL[i].MTFCC = vaIn[i].MTFCC
       /\ vaRCL[i].SEGMENT_EXISTS = vaIn[i].SEGMENT_EXISTS
       /\ vaRCL[i].RCL_ID = vaIn[i].RCL_ID

\* the function returned, a record of inRCL is not a driving road, and every
\* added field of it is calculated
C26_Witness ==
  /\ vaStep = "done"
  /\ \E i \in DOMAIN vaRCL :
       /\ ~VASubsetWhere(vaRCL[i])
       /\ ~IsNone(vaRCL[i].FlgFld) /\ ~IsNone(vaRCL[i].UniqueID)

(***************************************************************************)
(* FilterRoads_dens: the classes a selType keeps.                          *)
(***************************************************************************)
\* the classes the selection types are said to keep
KeptClasses(t) ==
  IF t = "ALL" THEN {"S1100", "S1200", "S1640", "S1400", "S1730", "S1740"}
  ELSE IF t = "NO_HIGHWAY" THEN {"S1200", "S1640", "S1400", "S1730", "S1740"}
  ELSE IF t = "LOCAL" THEN {"S1640", "S1400", "S1730", "S1740"}
  ELSE {}

\* C27: for selType ALL, NO_HIGHWAY and LOCAL the rows selected of inRoads
\* are exactly the rows of the classes listed for it (S1740, service drives,
\* among them) and outRoads is made of them alone; any other selType leaves
\* without writing outRoads.
C27_SelTypeKeepsItsClasses ==
  /\ fdStep \in {"tmpRoads", "done", "ExecuteError"} =>
       /\ selType \in {"ALL", "NO_HIGHWAY", "LOCAL"}
       /\ tmpRoads = SelectSeq(fdIn, LAMBDA r : r.MTFCC \in KeptClasses(selType))
  /\ fdStep = "done" =>
       /\ \A i \in DOMAIN fdOut : fdOut[i].MTFCC \in KeptClasses(selType)
       /\ \A j \in DOMAIN fdIn : fdIn[j].MTFCC \in KeptClasses(selType) =>
            \A c \in fdIn[j].geom : \E i \in DOMAIN fdOut : c \in fdOut[i].geom
  /\ fdStep = "exit" => selType \notin {"ALL", "NO_HIGHWAY", "LOCAL"} /\ fdOut = <<>>

(***************************************************************************)
(* MakeRampPoints.py: the loop that adds touching ramps.                   *)
(***************************************************************************)
\* s holds the ramps that intersect a highway and, with a ramp, every ramp
\* touching it
rlClosed(s) == rlOnHwy \subseteq s /\ Touching(rlTouch, s) \subseteq s
\* s is the least such set: the ramps that a chain of touching ramps joins
\* to a ramp intersecting a highway
rlLeast(s) == rlClosed(s) /\ \A t \in SUBSET Ramps : rlClosed(t) => s \subseteq t

\* C28: the loop is left in the end, whatever the ramps; when it is left cur
\* holds exactly the ramps that a chain of boundary-touching ramps joins to a
\* ramp intersecting a highway; and no turn of the loop takes a ramp out of
\* cur.
C28_LoopEndsAtLeastFixedPoint ==
  /\ <>(rlStep = "rmpt1")
  /\ [](rlStep = "rmpt1" => rlLeast(rlCur))
  /\ [][rlStep = "cur" => rlCur \subseteq rlCur']_vars

\* the loop was left with a ramp in cur that a turn after the first added
C28_Witness ==
  /\ rlStep = "rmpt1"
  /\ \E r \in rlCur : r \notin AddTouching(rlTouch, rlOnHwy)

(***************************************************************************)
(* AssignBuffer_su: the buffer width of every record.                      *)
(***************************************************************************)
\* C30: calculateBuffer returns for every record, reviewed or not, and the
\* width is positive: NH_BUFF_FT x 0.3048 with an override, and without one
\* (laneWidth + shoulderWidth) x 0.1524 with laneWidth assigned, for the
\* flags -1, 0 and 1 and every road class.
C30_BufferDefinedAndPositive ==
  /\ suStep # "ExecuteError"
  /\ suStep = "done" =>
       \A i \in DOMAIN suRCL :
         LET r == suRCL[i]
             vol == trafficVol(r.VDOT_TRAFFIC_AADT_NBR)
             class == bufClass(r.MTFCC, r.VDOT_RTE_TYPE_CD)
         IN  /\ ~IsNone(r.NH_BUFF_M) /\ FracPos(r.NH_BUFF_M)
             /\ IF ~IsNone(r.NH_BUFF_FT)
                THEN FracEq(r.NH_BUFF_M, Frac(Val(r.NH_BUFF_FT) * 3048, 10000))
                ELSE /\ laneWidthAssigned(r.NH_SURFWIDTH_FLAG)
                     /\ \E lane \in 0..30 :
                          FracEq(r.NH_BUFF_M,
                                 Frac((lane + shoulderWidth(class, vol)) * 1524, 10000))

====
